---- MODULE Spec2Model ----
(***************************************************************************)
(* Model of the fee-lottery worker (src/src/worker.ts, src/src/VRF.ts).    *)
(*                                                                         *)
(* The worker keeps two process-wide variables, isLotteryRunning and       *)
(* currentPotSize, and runs one asynchronous timer callback per interval.  *)
(* A callback is a sequence of synchronous segments separated by awaits;   *)
(* each action below is one such segment (the continuation that runs when  *)
(* the awaited external call returns or fails).  setInterval fires again   *)
(* whether or not an earlier callback has finished, so several callbacks   *)
(* ("ticks") can be suspended at awaits at the same time; Slots bounds how *)
(* many.                                                                   *)
(*                                                                         *)
(* Amounts of lamports are kept multiplied by BPS_DENOMINATOR, so that the *)
(* custom-fee-vault share balance * (bps / 10000) stays an integer; the    *)
(* rounding of IEEE doubles is not modelled.  volumeUsd is kept in tenths  *)
(* of a dollar for the same reason.                                        *)
(***************************************************************************)
EXTENDS Integers, Sequences, FiniteSets, TLC

\* ---------------------------------------------------------------- bounds
\* number of timer callbacks that can be in flight at the same time
MaxInFlight == 2
\* length of the list returned by sdk.fee.getAllClaimablePositions
MaxPositions == 2
\* number of transactions sdk.fee.getClaimTransaction returns for a position
MaxClaimTxs == 1
\* length of the list returned by getTradersWallet
MaxTraders == 2
\* largest value decoded from the first 8 bytes of the result buffer
MaxRandom == 3
\* length of the list handed to a call of selectWinnerFromTraders
MaxSelectTraders == 3
\* largest randomValue handed to a call of selectWinnerFromTraders, next to
\* the values of ExampleRandomValues
MaxRandomValue == 10
\* largest maxRetries handed to executeVRFWorkflow
MaxWorkflowRetries == 3
\* largest maxRetries handed to a call of waitForFulfillment on its own
MaxPollRetries == 4
\* largest potSize, in lamports, handed to a call of processLottery on its own
MaxPotSize == 12
\* pages the swaps API returns to one call of getTradersWallet
MaxPages == 2
\* swaps on a page
MaxSwaps == 2
\* bytes of the result buffer of a randomness account (32 on chain)
ResultBufferLen == 9
\* bytes at the head of the buffer that are zero, so that the decoded integer
\* stays below 2^25
ZeroHeadBytes == 4

\* ------------------------------------------------------ program constants
\* lamports of the threshold (LOTTERY_POT_THRESHOLD_SOL * LAMPORTS_PER_SOL)
LOTTERY_POT_THRESHOLD == 4
\* denominator of customFeeVaultBps
BPS_DENOMINATOR == 10000
\* 1 / PAYOUT_PERCENTAGE
PAYOUT_DIVISOR == 4
\* default maxRetries of waitForFulfillment
FULFILLMENT_MAX_RETRIES == 30
\* milliseconds per second in the delay of executeVRFWorkflow
BACKOFF_UNIT_MS == 1000
\* default topN of getTradersWallet
DEFAULT_TOP_N == 10
\* bytes of the result buffer that consumeRandomness decodes
RANDOM_VALUE_BYTES == 8
Slots == 1..MaxInFlight

VARIABLES
    isLotteryRunning,   \* worker.ts:69
    currentPotSize,     \* worker.ts:70, scaled by BPS_DENOMINATOR
    tick,               \* per callback in flight: its position and locals
    sel,                \* a call of selectWinnerFromTraders on its own
    wf,                 \* a call of executeVRFWorkflow: its position and locals
    randomnessAccounts, \* the randomness accounts on chain
    gtw,                \* a call of getTradersWallet on its own
    cr                  \* a call of consumeRandomness on its own

\* the scheduler of worker.ts
schedulerVars == <<isLotteryRunning, currentPotSize, tick>>
\* the functions of VRF.ts called on their own
callVars == <<sel, wf, randomnessAccounts, gtw, cr>>
vars == <<isLotteryRunning, currentPotSize, tick, sel, wf, randomnessAccounts, gtw, cr>>

\* ------------------------------------------------------------ input sets
TargetMint == "target"
OtherMint == "other"

\* positions as sdk.fee.getAllClaimablePositions reports them
TargetPositions ==
    { [baseMint |-> TargetMint, virtualPoolClaimableAmount |-> c[1],
       dammPoolClaimableAmount |-> c[2], isCustomFeeVault |-> c[3],
       customFeeVaultBalance |-> c[4], customFeeVaultBps |-> c[5]] :
        c \in {<<3, 0, FALSE, 0, 0>>, <<0, 1, FALSE, 0, 0>>, <<0, 1, TRUE, 1, 5000>>} }

OtherPositions ==
    { [baseMint |-> OtherMint, virtualPoolClaimableAmount |-> 5,
       dammPoolClaimableAmount |-> 0, isCustomFeeVault |-> FALSE,
       customFeeVaultBalance |-> 0, customFeeVaultBps |-> 0] }

PositionSet == TargetPositions \cup OtherPositions

SeqsUpTo(S, n) == UNION { [1..k -> S] : k \in 0..n }

PositionLists == SeqsUpTo(PositionSet, MaxPositions)

VolumeSet == {4, 30}

\* getTradersWallet (VRF.ts:482-488): one entry per wallet, by descending volume
TraderLists ==
    { l \in SeqsUpTo([walletAddress : 1..MaxTraders, volumeUsd : VolumeSet],
                     MaxTraders) :
        /\ \A i, j \in 1..Len(l) : i # j => l[i].walletAddress # l[j].walletAddress
        /\ \A i \in 1..Len(l) : i < Len(l) => l[i].volumeUsd >= l[i + 1].volumeUsd }

\* inputs of a call of selectWinnerFromTraders: volumes in tenths of a dollar
\* (0 and 0.4 are clamped to weight 1; 2.5 is not an integer)
SelectVolumes == {0, 4, 10, 25, 30}

\* the list of the example: volumes 100 and 300
ExampleTraders ==
    << [walletAddress |-> 1, volumeUsd |-> 1000],
       [walletAddress |-> 2, volumeUsd |-> 3000] >>

\* random values around the boundaries of ExampleTraders, and beyond its total
ExampleRandomValues == {99, 100, 250, 399, 400, 650}

SelectTraderLists ==
    { l \in SeqsUpTo([walletAddress : 1..MaxSelectTraders, volumeUsd : SelectVolumes],
                     MaxSelectTraders) :
        \A i, j \in 1..Len(l) : i # j => l[i].walletAddress # l[j].walletAddress }
    \cup {ExampleTraders}

RandomValues == (0..MaxRandomValue) \cup ExampleRandomValues

\* ------------------------------------------------------- pure functions
RECURSIVE SumSeq(_)
SumSeq(s) == IF s = <<>> THEN 0 ELSE s[1] + SumSeq(Tail(s))

\* worker.ts:90
FilterTarget(allPositions) ==
    SelectSeq(allPositions, LAMBDA p : p.baseMint = TargetMint)

\* worker.ts:107-125, the amount one position adds to currentPotSize (scaled)
PositionClaimable(position) ==
    position.virtualPoolClaimableAmount * BPS_DENOMINATOR
    + position.dammPoolClaimableAmount * BPS_DENOMINATOR
    + (IF position.isCustomFeeVault
       THEN position.customFeeVaultBalance * position.customFeeVaultBps
       ELSE 0)

\* worker.ts:102-126
TotalClaimable(targetPositions) ==
    SumSeq([i \in 1..Len(targetPositions) |-> PositionClaimable(targetPositions[i])])

\* mutant: the comparison of worker.ts:130 written as <=
MeetsThresholdStrict(potSize) == ~(potSize <= LOTTERY_POT_THRESHOLD * BPS_DENOMINATOR)

\* worker.ts:130, the negation of the early return
MeetsThreshold(potSize) == ~(potSize < LOTTERY_POT_THRESHOLD * BPS_DENOMINATOR)

\* Math.floor of a volume kept in tenths of a dollar
Floor(volumeUsd) == volumeUsd \div 10

\* mutant: Math.round in place of Math.floor at VRF.ts:292
WeightRounded(trader) ==
    IF (trader.volumeUsd + 5) \div 10 > 1 THEN (trader.volumeUsd + 5) \div 10 ELSE 1

\* VRF.ts:292
Weight(trader) ==
    IF Floor(trader.volumeUsd) > 1 THEN Floor(trader.volumeUsd) ELSE 1

Weights(traders) == [i \in 1..Len(traders) |-> Weight(traders[i])]

RECURSIVE WalkInclusive(_, _, _, _)
\* mutant: the comparison of VRF.ts:299 written as <=
WalkInclusive(weights, selectionValue, i, cumulativeWeight) ==
    IF i > Len(weights) THEN Len(weights) - 1
    ELSE IF selectionValue <= cumulativeWeight + weights[i] THEN i - 1
    ELSE WalkInclusive(weights, selectionValue, i + 1, cumulativeWeight + weights[i])

\* the value of the loop of VRF.ts:297 when it ends without a return
NotSelected == -1

RECURSIVE WalkLoopStopsEarly(_, _, _, _)
\* mutant: the loop test of VRF.ts:297 written as i < traders.length - 1
WalkLoopStopsEarly(weights, selectionValue, i, cumulativeWeight) ==
    IF i > Len(weights) - 1 THEN NotSelected
    ELSE IF selectionValue < cumulativeWeight + weights[i] THEN i - 1
    ELSE WalkLoopStopsEarly(weights, selectionValue, i + 1, cumulativeWeight + weights[i])

RECURSIVE WalkLoop(_, _, _, _)
\* VRF.ts:296-303: the loop; the index its return statement hands back
WalkLoop(weights, selectionValue, i, cumulativeWeight) ==
    IF i > Len(weights) THEN NotSelected
    ELSE IF selectionValue < cumulativeWeight + weights[i] THEN i - 1
    ELSE WalkLoop(weights, selectionValue, i + 1, cumulativeWeight + weights[i])

\* VRF.ts:296-307: the loop and the fallback behind it; indices are 0-based
\* as in the source
Walk(weights, selectionValue, i, cumulativeWeight) ==
    LET index == WalkLoop(weights, selectionValue, i, cumulativeWeight)
    IN IF index = NotSelected THEN Len(weights) - 1 ELSE index

\* the wallet of a call that returned no winner
NoWinner == 0

\* mutant: the winner's address is read from the head of the list
selectWinnerFromTradersHeadAddress(traders, randomValue) ==
    IF Len(traders) = 0
    THEN [error |-> "No traders provided.", winner |-> NoWinner, winnerIndex |-> -1,
          totalWeight |-> 0, selectionValue |-> 0, fallback |-> FALSE]
    ELSE LET weights == Weights(traders)
             totalWeight == SumSeq(weights)
             selectionValue == randomValue % totalWeight
             winnerIndex == Walk(weights, selectionValue, 1, 0)
         IN [error |-> "",
             winner |-> traders[1].walletAddress,
             winnerIndex |-> winnerIndex,
             totalWeight |-> totalWeight,
             selectionValue |-> selectionValue,
             fallback |-> WalkLoop(weights, selectionValue, 1, 0) = NotSelected]

\* mutant: the selection value is reduced modulo the number of traders
selectWinnerFromTradersModCount(traders, randomValue) ==
    IF Len(traders) = 0
    THEN [error |-> "No traders provided.", winner |-> NoWinner, winnerIndex |-> -1,
          totalWeight |-> 0, selectionValue |-> 0, fallback |-> FALSE]
    ELSE LET weights == Weights(traders)
             totalWeight == SumSeq(weights)
             selectionValue == randomValue % Len(traders)
             winnerIndex == Walk(weights, selectionValue, 1, 0)
         IN [error |-> "",
             winner |-> traders[winnerIndex + 1].walletAddress,
             winnerIndex |-> winnerIndex,
             totalWeight |-> totalWeight,
             selectionValue |-> selectionValue,
             fallback |-> WalkLoop(weights, selectionValue, 1, 0) = NotSelected]

\* mutant: without the guard of VRF.ts:290 an empty list falls through to the
\* fallback return with lastIndex -1
selectWinnerFromTradersNoGuard(traders, randomValue) ==
    IF Len(traders) = 0
    THEN [error |-> "", winner |-> NoWinner, winnerIndex |-> -1,
          totalWeight |-> 0, selectionValue |-> 0, fallback |-> TRUE]
    ELSE LET weights == Weights(traders)
             totalWeight == SumSeq(weights)
             selectionValue == randomValue % totalWeight
             winnerIndex == Walk(weights, selectionValue, 1, 0)
         IN [error |-> "",
             winner |-> traders[winnerIndex + 1].walletAddress,
             winnerIndex |-> winnerIndex,
             totalWeight |-> totalWeight,
             selectionValue |-> selectionValue,
             fallback |-> WalkLoop(weights, selectionValue, 1, 0) = NotSelected]

\* VRF.ts:289-308; error is the message of the Error thrown ("" on a return)
selectWinnerFromTraders(traders, randomValue) ==
    IF Len(traders) = 0
    THEN [error |-> "No traders provided.", winner |-> NoWinner, winnerIndex |-> -1,
          totalWeight |-> 0, selectionValue |-> 0, fallback |-> FALSE]
    ELSE LET weights == Weights(traders)
             totalWeight == SumSeq(weights)
             selectionValue == randomValue % totalWeight
             winnerIndex == Walk(weights, selectionValue, 1, 0)
         IN [error |-> "",
             winner |-> traders[winnerIndex + 1].walletAddress,
             winnerIndex |-> winnerIndex,
             totalWeight |-> totalWeight,
             selectionValue |-> selectionValue,
             fallback |-> WalkLoop(weights, selectionValue, 1, 0) = NotSelected]

\* worker.ts:370
SchedulerWinnerIndex(traders, randomValue) == randomValue % Len(traders)

\* mutant: Math.ceil in place of Math.floor at worker.ts:193
PayoutAmountCeil(potSize) ==
    (potSize + PAYOUT_DIVISOR * BPS_DENOMINATOR - 1) \div (PAYOUT_DIVISOR * BPS_DENOMINATOR)

\* worker.ts:193, potSize scaled by BPS_DENOMINATOR, result in lamports
PayoutAmount(potSize) == potSize \div (PAYOUT_DIVISOR * BPS_DENOMINATOR)

\* worker.ts:207, potSize and the result scaled by BPS_DENOMINATOR
BurnAmountInSOL(potSize, payoutAmount) == potSize - payoutAmount * BPS_DENOMINATOR

\* ------------------------------------------------------------ the ticks
\* no status document has been handed to updateOne
NoStatus == [currentPotSize |-> -1, isLotteryRunning |-> FALSE]

\* a callback that has not started.  A local is kept only while the code can
\* still read it, and the counts of what a callback has done are kept until it
\* ends; the record of an ended callback keeps how it ended.
\* no receipt has been inserted
NoReceipt == [potSize |-> -1, winner |-> 0, burnAmount |-> -1]

FreshTick ==
    [pc |-> "idle",
     outcome |-> "none",         \* how the previous callback of the slot ended
     targetCount |-> 0,          \* targetPositions.length
     found |-> "unknown",        \* "none": worker.ts:83, "noMatch": worker.ts:91
     sum |-> -1,                 \* the sum computed at worker.ts:102-126
     executed |-> FALSE,         \* claimFeesForToken reached worker.ts:135
     i |-> 0,                    \* worker.ts:137
     j |-> 0,                    \* worker.ts:152
     claimTransactions |-> 0,    \* claimTransactions.length
     built |-> 0,                \* claim transactions built by this tick
     sent |-> 0,                 \* claim transactions submitted by this tick
     feesClaimed |-> FALSE,      \* worker.ts:332
     status |-> NoStatus,        \* the $set document of worker.ts:338-343
     setRunning |-> FALSE,       \* this tick executed worker.ts:351
     traders |-> <<>>,           \* worker.ts:354
     vrfRequests |-> 0,          \* calls of requestVRF
     committed |-> FALSE,        \* commit transaction confirmed without error
     fulfilled |-> FALSE,        \* waitForFulfillment returned true
     revealed |-> FALSE,         \* reveal transaction confirmed
     randomValue |-> -1,         \* worker.ts:367
     winnerIndex |-> -1,         \* worker.ts:370
     winner |-> 0,               \* the address paid, worker.ts:371
     potSize |-> -1,             \* argument of processLottery
     payoutAmount |-> -1,        \* worker.ts:193
     burnAmountInSOL |-> -1,     \* worker.ts:207, scaled by BPS_DENOMINATOR
     tokensToBurn |-> -1,        \* worker.ts:266
     burned |-> 0,               \* amount handed to burn, worker.ts:283
     payouts |-> 0,              \* payout transfers confirmed
     swaps |-> 0,                \* swap transactions confirmed
     burns |-> 0,                \* burn transactions confirmed
     receipts |-> 0,             \* receipts inserted
     receipt |-> NoReceipt]      \* the document of worker.ts:292-299

\* the callback is between worker.ts:351 and the end of its round
RoundPcs ==
    {"getTradersWallet", "requestVRFCreate", "requestVRFCommit", "consumeRandomness",
     "payout", "quote", "swapBuild", "swapSubmit", "getTokenAccountBalance", "burn",
     "insertReceipt"}

\* the callback is inside processLottery
PipelinePcs ==
    {"payout", "quote", "swapBuild", "swapSubmit", "getTokenAccountBalance", "burn",
     "insertReceipt"}

\* the ways processLottery ends
PipelineFailures ==
    {"payoutFailed", "mintInvalid", "quoteFailed", "quoteEmpty", "swapBuildFailed",
     "swapFailed",
     "balanceFailed", "burnFailed", "receiptFailed"}

\* the ways the randomness steps of mainLoop fail
RandomnessFailures == {"vrfFailed", "consumeFailed"}

\* no call of consumeRandomness; currentRound is <<>> when the account has no
\* result, else the bytes of the result
NoConsume ==
    [pc |-> "idle", sbProgram |-> FALSE, currentRound |-> <<>>, randomValue |-> -1,
     error |-> ""]

\* no call of getTradersWallet is being made; seen is the list of the swaps
\* added to walletVolumeMap, in the order they were read
NoTradersCall ==
    [pc |-> "idle", apiKey |-> FALSE, tokenAddress |-> FALSE, topN |-> 0,
     pages |-> 0, walletVolumeMap |-> <<>>, seen |-> <<>>, result |-> <<>>]

\* no call of selectWinnerFromTraders is being made
NoCall ==
    [pc |-> "idle", traders |-> <<>>, randomValue |-> 0,
     result |-> [error |-> "", winner |-> NoWinner, winnerIndex |-> -1,
                 totalWeight |-> 0, selectionValue |-> 0, fallback |-> FALSE]]

SchedulerInit ==
    /\ isLotteryRunning = FALSE
    /\ currentPotSize = 0
    /\ tick = [t \in Slots |-> FreshTick]

\* public keys Keypair.generate can return, in the order it returns them
AccountIds == 1..(MaxWorkflowRetries + 1)

\* VRF.ts:111-114: the locals of a call of waitForFulfillment; polls counts the
\* calls of loadData, observed is what the last one gave, fulfilled the value
\* returned
CallWait(maxRetries) ==
    [maxRetries |-> maxRetries, attempt |-> 1, polls |-> 0, observed |-> "none",
     fulfilled |-> "pending"]

\* no call of waitForFulfillment has been made
NoWait == [CallWait(0) EXCEPT !.attempt = 0]

\* no call of executeVRFWorkflow is being made; log has one entry per attempt
\* started: the account each phase of the attempt was handed (0: not run)
NoWorkflow ==
    [pc |-> "idle", maxRetries |-> 0, attempt |-> 0, generated |-> 0,
     rngKp |-> 0, randomnessAccount |-> 0, wait |-> NoWait, delayMs |-> 0,
     slept |-> <<>>, randomValue |-> 0, error |-> "", log |-> <<>>]

\* a public key nothing was created at
NoAccount == [created |-> FALSE, committed |-> FALSE, revealed |-> FALSE, result |-> 0]

NoAccounts == [a \in AccountIds |-> NoAccount]

Init ==
    /\ SchedulerInit
    /\ sel = NoCall
    /\ gtw = NoTradersCall
    /\ cr = NoConsume
    /\ wf = NoWorkflow
    /\ randomnessAccounts = NoAccounts

\* the ways a rejection reaches the catch of the callback
TickFailures ==
    {"statusError", "winnerInvalid"} \cup RandomnessFailures \cup PipelineFailures

\* mutant: the catch of the callback throws the error on
CaughtRethrown(how) == IF how \in TickFailures THEN "unhandledRejection" ELSE how

\* worker.ts:384-386: the catch of the callback logs the error, and the
\* callback returns as it does on its other ways out
Caught(how) == how

\* a rejection has left a callback: the process is gone
ProcessCrashed == \E t \in Slots : tick[t].outcome = "unhandledRejection"

\* the callback returns (or its error is logged at worker.ts:384-386)
EndTick(t, how) ==
    tick' = [tick EXCEPT ![t] = [FreshTick EXCEPT !.outcome = Caught(how)]]

\* worker.ts:321-332: the timer fires; a slot is a callback not in flight
TimerFires(t) ==
    /\ tick[t].pc = "idle"
    /\ ~ProcessCrashed
    /\ IF isLotteryRunning
       THEN EndTick(t, "skipped")
       ELSE tick' = [tick EXCEPT ![t] = [FreshTick EXCEPT !.pc = "getAllClaimablePositions"]]
    /\ UNCHANGED <<isLotteryRunning, currentPotSize>>

\* mutant: the flag is set before the status document is built
ReturnFromClaimFlagAhead(t, rec, result, pot) ==
    tick' = [tick EXCEPT ![t] =
                [FreshTick EXCEPT !.pc = "updateStatus", !.feesClaimed = result,
                                  !.found = rec.found, !.sum = rec.sum, !.executed = rec.executed,
                                  !.built = rec.built, !.sent = rec.sent,
                                  !.status = [currentPotSize |-> pot,
                                              isLotteryRunning |-> result]]]

\* mutant: the status document is built before claimFeesForToken is called
ReturnFromClaimStatusBefore(t, rec, result, pot) ==
    tick' = [tick EXCEPT ![t] =
                [FreshTick EXCEPT !.pc = "updateStatus", !.feesClaimed = result,
                                  !.found = rec.found, !.sum = rec.sum, !.executed = rec.executed,
                                  !.built = rec.built, !.sent = rec.sent,
                                  !.status = [currentPotSize |-> 0,
                                              isLotteryRunning |-> FALSE]]]

\* claimFeesForToken returns with currentPotSize = pot; the status document is
\* built from the two variables and the callback awaits its write (worker.ts:335)
ReturnFromClaim(t, rec, result, pot) ==
    tick' = [tick EXCEPT ![t] =
                [FreshTick EXCEPT !.pc = "updateStatus", !.feesClaimed = result,
                                  !.found = rec.found, !.sum = rec.sum, !.executed = rec.executed,
                                  !.built = rec.built, !.sent = rec.sent,
                                  !.status = [currentPotSize |-> pot,
                                              isLotteryRunning |-> isLotteryRunning]]]

\* mutant: the early returns of worker.ts:83-99 without the reset of the pot
NoClaimableKeepsPot(t, why) ==
    /\ UNCHANGED currentPotSize
    /\ ReturnFromClaim(t, [tick[t] EXCEPT !.found = why], FALSE, currentPotSize)

\* worker.ts:83-99: no position at all ("none") or none of the target mint
NoClaimable(t, why) ==
    /\ currentPotSize' = 0
    /\ ReturnFromClaim(t, [tick[t] EXCEPT !.found = why], FALSE, 0)

\* mutant: the early return of worker.ts:130-133 resets the pot like the two
\* early returns before it
SkipClaimResetsPot(t, total) ==
    /\ currentPotSize' = 0
    /\ ReturnFromClaim(t, [tick[t] EXCEPT !.sum = total], FALSE, 0)

\* worker.ts:102-133: the sum is below the threshold
SkipClaim(t, total) ==
    /\ currentPotSize' = total
    /\ ReturnFromClaim(t, [tick[t] EXCEPT !.sum = total], FALSE, total)

\* worker.ts:102-141: the sum meets the threshold, the first claim is requested
EnterExecution(t, targetCount, total) ==
    /\ currentPotSize' = total
    /\ tick' = [tick EXCEPT ![t] =
                [@ EXCEPT !.pc = "getClaimTransaction", !.targetCount = targetCount,
                          !.sum = total, !.executed = TRUE, !.i = 1]]

\* worker.ts:82-135 and 182-185: the continuation of getAllClaimablePositions
GetAllClaimablePositions(t) ==
    /\ tick[t].pc = "getAllClaimablePositions"
    /\ UNCHANGED isLotteryRunning
    /\ \/ \* the query throws: caught at worker.ts:182
          /\ ReturnFromClaim(t, tick[t], FALSE, currentPotSize)
          /\ UNCHANGED currentPotSize
       \/ \E allPositions \in PositionLists :
            LET targetPositions == FilterTarget(allPositions)
                total == TotalClaimable(targetPositions)
            IN IF Len(allPositions) = 0
               THEN NoClaimable(t, "none")
               ELSE IF Len(targetPositions) = 0
               THEN NoClaimable(t, "noMatch")
               ELSE IF MeetsThreshold(total)
                    THEN EnterExecution(t, Len(targetPositions), total)
                    ELSE SkipClaim(t, total)

\* worker.ts:137, 152, 179-180: advance the two loops after transaction j
NextClaim(t, rec) ==
    IF rec.j < rec.claimTransactions
    THEN tick' = [tick EXCEPT ![t] = [rec EXCEPT !.pc = "sendTransaction", !.j = rec.j + 1]]
    ELSE IF rec.i < rec.targetCount
    THEN tick' = [tick EXCEPT ![t] = [rec EXCEPT !.pc = "getClaimTransaction",
                                                 !.i = rec.i + 1, !.j = 0,
                                                 !.claimTransactions = 0]]
    ELSE ReturnFromClaim(t, rec, TRUE, currentPotSize)

\* worker.ts:141-151: the continuation of sdk.fee.getClaimTransaction
GetClaimTransaction(t) ==
    /\ tick[t].pc = "getClaimTransaction"
    /\ UNCHANGED <<isLotteryRunning, currentPotSize>>
    /\ \/ \* the call throws outside the inner try: caught at worker.ts:182
          ReturnFromClaim(t, tick[t], FALSE, currentPotSize)
       \/ \E n \in 0..MaxClaimTxs :
            NextClaim(t, [tick[t] EXCEPT !.claimTransactions = n, !.j = 0,
                                         !.built = @ + n])

\* worker.ts:155-160: sign, fetch a blockhash, submit
SendTransaction(t) ==
    /\ tick[t].pc = "sendTransaction"
    /\ UNCHANGED <<isLotteryRunning, currentPotSize>>
    /\ \/ \* signing, the blockhash query or the submission throws: worker.ts:174
          NextClaim(t, tick[t])
       \/ tick' = [tick EXCEPT ![t] = [@ EXCEPT !.pc = "confirmTransaction",
                                                !.sent = @ + 1]]

\* worker.ts:162-176: confirmed, confirmed with an error, or the wait throws
ConfirmTransaction(t) ==
    /\ tick[t].pc = "confirmTransaction"
    /\ UNCHANGED <<isLotteryRunning, currentPotSize>>
    /\ NextClaim(t, tick[t])

\* worker.ts:335-352: the continuation of the status write
UpdateStatus(t) ==
    /\ tick[t].pc = "updateStatus"
    /\ UNCHANGED currentPotSize
    /\ \/ \* updateOne throws: worker.ts:384
          /\ EndTick(t, "statusError")
          /\ UNCHANGED isLotteryRunning
       \/ IF tick[t].feesClaimed
          THEN /\ isLotteryRunning' = TRUE
               /\ tick' = [tick EXCEPT ![t] =
                     [FreshTick EXCEPT !.pc = "getTradersWallet",
                                       !.feesClaimed = TRUE, !.sum = tick[t].sum,
                                       !.executed = tick[t].executed,
                                       !.setRunning = TRUE]]
          ELSE /\ EndTick(t, "claimFalse")
               /\ UNCHANGED isLotteryRunning

\* mutant: the empty list ends the tick without worker.ts:358-359
GetTradersWalletNoReset(t) ==
    /\ tick[t].pc = "getTradersWallet"
    /\ UNCHANGED <<isLotteryRunning, currentPotSize>>
    /\ \E traders \in TraderLists :
         IF Len(traders) = 0
         THEN EndTick(t, "noTraders")
         ELSE tick' = [tick EXCEPT ![t] = [@ EXCEPT !.pc = "requestVRFCreate",
                                                    !.traders = traders,
                                                    !.vrfRequests = @ + 1]]

\* worker.ts:354-365: getTradersWallet returns a list and never throws
GetTradersWallet(t) ==
    /\ tick[t].pc = "getTradersWallet"
    /\ \E traders \in TraderLists :
         IF Len(traders) = 0
         THEN /\ currentPotSize' = 0
              /\ isLotteryRunning' = FALSE
              /\ EndTick(t, "noTraders")
         ELSE /\ tick' = [tick EXCEPT ![t] = [@ EXCEPT !.pc = "requestVRFCreate",
                                                       !.traders = traders,
                                                       !.vrfRequests = @ + 1]]
              /\ UNCHANGED <<isLotteryRunning, currentPotSize>>

\* worker.ts:379-386: the rejection of requestVRF().then(...) is rethrown by the
\* .catch handler and logged by the callback's catch; nothing else is done
RoundRejected(t, how) ==
    /\ EndTick(t, how)
    /\ UNCHANGED <<isLotteryRunning, currentPotSize>>

\* VRF.ts:138-193: create and fund the randomness account
RequestVRFCreate(t) ==
    /\ tick[t].pc = "requestVRFCreate"
    /\ \/ RoundRejected(t, "vrfFailed")
       \/ /\ tick' = [tick EXCEPT ![t] = [@ EXCEPT !.pc = "requestVRFCommit"]]
          /\ UNCHANGED <<isLotteryRunning, currentPotSize>>

\* VRF.ts:195-231: the commit transaction; confirmTransaction's value.err is
\* not looked at, so a commit that confirms with an error returns normally
RequestVRFCommit(t) ==
    /\ tick[t].pc = "requestVRFCommit"
    /\ \/ RoundRejected(t, "vrfFailed")
       \/ \E ok \in BOOLEAN :
            /\ tick' = [tick EXCEPT ![t] = [@ EXCEPT !.pc = "consumeRandomness",
                                                     !.committed = ok]]
            /\ UNCHANGED <<isLotteryRunning, currentPotSize>>

\* tokens the worker's associated account can hold when the balance is read
BalanceSet == {0, 5}

\* mutant: the reset of worker.ts:308-309 placed at the end of the try block
ProcessLotteryExitOnSuccessOnly(t, how) ==
    /\ isLotteryRunning' = (IF how = "completed" THEN FALSE ELSE isLotteryRunning)
    /\ currentPotSize' = (IF how = "completed" THEN 0 ELSE currentPotSize)
    /\ EndTick(t, how)

\* worker.ts:304-310: processLottery ends; the finally block runs on both exits,
\* and a rejection goes through worker.ts:379-386
ProcessLotteryExit(t, how) ==
    /\ isLotteryRunning' = FALSE
    /\ currentPotSize' = 0
    /\ EndTick(t, how)

\* worker.ts:292-299: the receipt document
Receipt(rec) ==
    [potSize |-> rec.potSize, winner |-> rec.winner, burnAmount |-> rec.tokensToBurn]

\* worker.ts:301-310: insertOne resolved, the finally block runs and
\* processLottery returns
ProcessLotteryReturn(t) ==
    /\ isLotteryRunning' = FALSE
    /\ currentPotSize' = 0
    /\ tick' = [tick EXCEPT ![t] = [FreshTick EXCEPT !.outcome = "completed",
                                                     !.receipts = 1,
                                                     !.receipt = Receipt(tick[t])]]

\* VRF.ts:248-261, worker.ts:367-378 and 188-203: the continuation of the
\* randomness account read, up to the first await of processLottery.  The
\* scheduler hands the trader record itself to new PublicKey, which may throw.
ConsumeRandomness(t) ==
    /\ tick[t].pc = "consumeRandomness"
    /\ \/ \* loadData throws, the result is missing, or it is all zero
          RoundRejected(t, "consumeFailed")
       \/ \E r \in 0..MaxRandom, validKey \in BOOLEAN :
            LET winnerIndex == SchedulerWinnerIndex(tick[t].traders, r)
            IN IF ~validKey
               THEN RoundRejected(t, "winnerInvalid")
               ELSE /\ tick' = [tick EXCEPT ![t] =
                            [FreshTick EXCEPT
                                !.pc = "payout", !.feesClaimed = TRUE,
                                !.setRunning = TRUE,
                                !.vrfRequests = tick[t].vrfRequests,
                                !.committed = tick[t].committed,
                                !.randomValue = r, !.winnerIndex = winnerIndex,
                                !.winner = tick[t].traders[winnerIndex + 1].walletAddress,
                                !.potSize = currentPotSize,
                                !.payoutAmount = PayoutAmount(currentPotSize)]]
                    /\ UNCHANGED <<isLotteryRunning, currentPotSize>>

\* a step of processLottery succeeded and the next await is reached
PipelineStep(t, rec, next) ==
    /\ tick' = [tick EXCEPT ![t] = [rec EXCEPT !.pc = next]]
    /\ UNCHANGED <<isLotteryRunning, currentPotSize>>

\* mutant: a failed mint parse sends the callback back to the payout transfer
PayoutResent(t) ==
    /\ tick[t].pc = "payout"
    /\ \/ ProcessLotteryExit(t, "payoutFailed")
       \/ \E validMint \in BOOLEAN :
            PipelineStep(t, [tick[t] EXCEPT !.payouts = @ + 1,
                                            !.committed = FALSE,
                                            !.randomValue = -1,
                                            !.winnerIndex = -1],
                         IF validMint THEN "quote" ELSE "payout")

\* worker.ts:203-226: the payout transfer, then the mint is parsed
Payout(t) ==
    /\ tick[t].pc = "payout"
    /\ \/ ProcessLotteryExit(t, "payoutFailed")
       \/ \E validMint \in BOOLEAN :
            IF validMint
            THEN PipelineStep(t, [tick[t] EXCEPT !.payouts = @ + 1,
                                                 !.burnAmountInSOL =
                                                     BurnAmountInSOL(tick[t].potSize,
                                                                     tick[t].payoutAmount),
                                                 !.committed = FALSE,
                                                 !.randomValue = -1,
                                                 !.winnerIndex = -1], "quote")
            ELSE ProcessLotteryExit(t, "mintInvalid")

\* outAmount of a quote; 0: the field is missing, empty or zero
QuoteOutAmounts == {0, 5}

\* mutant: the throw of worker.ts:231 leaves processLottery past its finally
QuoteEmptySkipsFinally(t) ==
    /\ tick[t].pc = "quote"
    /\ \/ ProcessLotteryExit(t, "quoteFailed")
       \/ \E outAmount \in QuoteOutAmounts :
            IF outAmount = 0
            THEN EndTick(t, "quoteEmpty") /\ UNCHANGED <<isLotteryRunning, currentPotSize>>
            ELSE PipelineStep(t, tick[t], "swapBuild")

\* worker.ts:219-232: the quote request is rejected, or resolves with or
\* without an outAmount
Quote(t) ==
    /\ tick[t].pc = "quote"
    /\ \/ ProcessLotteryExit(t, "quoteFailed")
       \/ \E outAmount \in QuoteOutAmounts :
            IF outAmount = 0
            THEN ProcessLotteryExit(t, "quoteEmpty")
            ELSE PipelineStep(t, tick[t], "swapBuild")

\* worker.ts:234-251: build and decode the swap transaction
SwapBuild(t) ==
    /\ tick[t].pc = "swapBuild"
    /\ \/ ProcessLotteryExit(t, "swapBuildFailed")
       \/ PipelineStep(t, tick[t], "swapSubmit")

\* mutant: the swap is sent and its confirmation is not awaited
SwapSubmitNotConfirmed(t) ==
    /\ tick[t].pc = "swapSubmit"
    /\ \/ ProcessLotteryExit(t, "swapFailed")
       \/ PipelineStep(t, tick[t], "getTokenAccountBalance")

\* worker.ts:252-265: submit and confirm the swap
SwapSubmit(t) ==
    /\ tick[t].pc = "swapSubmit"
    /\ \/ ProcessLotteryExit(t, "swapFailed")
       \/ PipelineStep(t, [tick[t] EXCEPT !.swaps = @ + 1], "getTokenAccountBalance")

\* mutant: the test of worker.ts:270 always taken
GetTokenAccountBalanceAlwaysBurns(t) ==
    /\ tick[t].pc = "getTokenAccountBalance"
    /\ \/ ProcessLotteryExit(t, "balanceFailed")
       \/ \E amount \in BalanceSet :
            PipelineStep(t, [tick[t] EXCEPT !.tokensToBurn = amount], "burn")

\* worker.ts:265-301: the balance read back from the chain
GetTokenAccountBalance(t) ==
    /\ tick[t].pc = "getTokenAccountBalance"
    /\ \/ ProcessLotteryExit(t, "balanceFailed")
       \/ \E amount \in BalanceSet :
            PipelineStep(t, [tick[t] EXCEPT !.tokensToBurn = amount],
                         IF amount > 0 THEN "burn" ELSE "insertReceipt")

\* worker.ts:277-301
Burn(t) ==
    /\ tick[t].pc = "burn"
    /\ \/ ProcessLotteryExit(t, "burnFailed")
       \/ PipelineStep(t, [tick[t] EXCEPT !.burns = @ + 1,
                                          !.burned = tick[t].tokensToBurn],
                       "insertReceipt")

\* mutant: the document is in the collection when insertOne rejects
InsertReceiptKeptOnFailure(t) ==
    /\ tick[t].pc = "insertReceipt"
    /\ \/ /\ isLotteryRunning' = FALSE
          /\ currentPotSize' = 0
          /\ tick' = [tick EXCEPT ![t] = [FreshTick EXCEPT !.outcome = "receiptFailed",
                                                           !.receipts = 1,
                                                           !.receipt = Receipt(tick[t])]]
       \/ ProcessLotteryReturn(t)

\* worker.ts:301-310
InsertReceipt(t) ==
    /\ tick[t].pc = "insertReceipt"
    /\ \/ ProcessLotteryExit(t, "receiptFailed")
       \/ ProcessLotteryReturn(t)

Next ==
    \E t \in Slots :
        \/ TimerFires(t) /\ UNCHANGED callVars
        \/ GetAllClaimablePositions(t) /\ UNCHANGED callVars
        \/ GetClaimTransaction(t) /\ UNCHANGED callVars
        \/ SendTransaction(t) /\ UNCHANGED callVars
        \/ ConfirmTransaction(t) /\ UNCHANGED callVars
        \/ UpdateStatus(t) /\ UNCHANGED callVars
        \/ GetTradersWallet(t) /\ UNCHANGED callVars
        \/ RequestVRFCreate(t) /\ UNCHANGED callVars
        \/ RequestVRFCommit(t) /\ UNCHANGED callVars
        \/ ConsumeRandomness(t) /\ UNCHANGED callVars
        \/ Payout(t) /\ UNCHANGED callVars
        \/ Quote(t) /\ UNCHANGED callVars
        \/ SwapBuild(t) /\ UNCHANGED callVars
        \/ SwapSubmit(t) /\ UNCHANGED callVars
        \/ GetTokenAccountBalance(t) /\ UNCHANGED callVars
        \/ Burn(t) /\ UNCHANGED callVars
        \/ InsertReceipt(t) /\ UNCHANGED callVars

Spec == Init /\ [][Next]_vars

\* ------------------------------------------- callbacks that do not overlap
\* no callback is in flight
AllIdle == \A t \in Slots : tick[t].pc = "idle"

\* the interval of worker.ts:321 is longer than any callback runs: the timer
\* fires when the callback before has ended
SerialNext ==
    \E t \in Slots :
        \/ AllIdle /\ TimerFires(t) /\ UNCHANGED callVars
        \/ GetAllClaimablePositions(t) /\ UNCHANGED callVars
        \/ GetClaimTransaction(t) /\ UNCHANGED callVars
        \/ SendTransaction(t) /\ UNCHANGED callVars
        \/ ConfirmTransaction(t) /\ UNCHANGED callVars
        \/ UpdateStatus(t) /\ UNCHANGED callVars
        \/ GetTradersWallet(t) /\ UNCHANGED callVars
        \/ RequestVRFCreate(t) /\ UNCHANGED callVars
        \/ RequestVRFCommit(t) /\ UNCHANGED callVars
        \/ ConsumeRandomness(t) /\ UNCHANGED callVars
        \/ Payout(t) /\ UNCHANGED callVars
        \/ Quote(t) /\ UNCHANGED callVars
        \/ SwapBuild(t) /\ UNCHANGED callVars
        \/ SwapSubmit(t) /\ UNCHANGED callVars
        \/ GetTokenAccountBalance(t) /\ UNCHANGED callVars
        \/ Burn(t) /\ UNCHANGED callVars
        \/ InsertReceipt(t) /\ UNCHANGED callVars

SpecSerial == Init /\ [][SerialNext]_vars

\* ------------------------------------------- getTradersWallet on its own
\* an element of result that is null: reading its walletAddress throws
NullSwap == [null |-> TRUE, walletAddress |-> 0, isNumber |-> FALSE, totalValueUsd |-> 0]

\* the elements of a page: swaps of wallets 1..3 or without an address (0), of
\* 0.4 or 1 dollar (in tenths), a swap whose totalValueUsd is not a number,
\* and null
SwapSet ==
    { [null |-> FALSE, walletAddress |-> w, isNumber |-> TRUE, totalValueUsd |-> v] :
        w \in 0..3, v \in {4, 10} }
    \cup { [null |-> FALSE, walletAddress |-> 1, isNumber |-> FALSE, totalValueUsd |-> 0],
           NullSwap }

SwapPages == SeqsUpTo(SwapSet, MaxSwaps)

TopNs == {1, 2, DEFAULT_TOP_N}

\* VRF.ts:473-476: one swap is added to walletVolumeMap, a Map kept here in
\* its insertion order
AddVolume(map, swap) ==
    IF \E i \in 1..Len(map) : map[i].walletAddress = swap.walletAddress
    THEN [i \in 1..Len(map) |->
            IF map[i].walletAddress = swap.walletAddress
            THEN [map[i] EXCEPT !.volumeUsd = @ + swap.totalValueUsd]
            ELSE map[i]]
    ELSE Append(map, [walletAddress |-> swap.walletAddress,
                      volumeUsd |-> swap.totalValueUsd])

RECURSIVE AggregateSwaps(_, _)
\* VRF.ts:472-477: the forEach over a page; threw: an element was null
AggregateSwaps(acc, result) ==
    IF result = <<>> THEN acc
    ELSE LET swap == Head(result)
         IN IF swap.null THEN [acc EXCEPT !.threw = TRUE]
            ELSE IF swap.walletAddress # 0 /\ swap.isNumber
            THEN AggregateSwaps([acc EXCEPT !.map = AddVolume(@, swap),
                                            !.seen = Append(@, swap)],
                                Tail(result))
            ELSE AggregateSwaps(acc, Tail(result))

\* mutant: the comparator of VRF.ts:483 written as a[1] - b[1]
InsertByVolumeAscending(sorted, entry) ==
    LET k == Cardinality({ i \in 1..Len(sorted) :
                             sorted[i].volumeUsd <= entry.volumeUsd })
    IN SubSeq(sorted, 1, k) \o <<entry>> \o SubSeq(sorted, k + 1, Len(sorted))

\* one step of the stable sort with the comparator b[1] - a[1] of VRF.ts:483
InsertByVolume(sorted, entry) ==
    LET k == Cardinality({ i \in 1..Len(sorted) :
                             sorted[i].volumeUsd >= entry.volumeUsd })
    IN SubSeq(sorted, 1, k) \o <<entry>> \o SubSeq(sorted, k + 1, Len(sorted))

RECURSIVE SortByVolume(_)
\* VRF.ts:482-483: the entries of the map, sorted
SortByVolume(map) ==
    IF map = <<>> THEN <<>>
    ELSE InsertByVolume(SortByVolume(SubSeq(map, 1, Len(map) - 1)), map[Len(map)])

\* VRF.ts:482-488 (and 497-503): sort, slice(0, topN), map
TopTraders(map, topN) ==
    LET sorted == SortByVolume(map)
    IN SubSeq(sorted, 1, IF topN < Len(sorted) THEN topN ELSE Len(sorted))

\* a caller passes tokenAddress, apiKey and topN
TradersInit ==
    /\ SchedulerInit
    /\ sel = NoCall
    /\ wf = NoWorkflow
    /\ randomnessAccounts = NoAccounts
    /\ cr = NoConsume
    /\ \E apiKey \in BOOLEAN, tokenAddress \in BOOLEAN, topN \in TopNs :
         gtw = [NoTradersCall EXCEPT !.pc = "called", !.apiKey = apiKey,
                                     !.tokenAddress = tokenAddress, !.topN = topN]

\* VRF.ts:378-385 and 511, 462-470: the checks of the arguments, then the first
\* call of fetchSwaps
GetTradersWalletCalled ==
    /\ gtw.pc = "called"
    /\ gtw' = IF ~gtw.apiKey \/ ~gtw.tokenAddress
              THEN [gtw EXCEPT !.pc = "returned", !.result = <<>>]
              ELSE [gtw EXCEPT !.pc = "fetchSwaps"]
    /\ UNCHANGED <<schedulerVars, cr, sel, wf, randomnessAccounts>>

\* VRF.ts:493-508: the catch block of collectWallets
CollectWalletsCatch(g, map) ==
    [g EXCEPT !.pc = "returned", !.walletVolumeMap = map,
              !.result = IF Len(map) > 0 THEN TopTraders(map, g.topN) ELSE <<>>]

\* VRF.ts:469-492: fetchSwaps has returned a page, or the empty page it
\* returns when its attempts failed (VRF.ts:449-458), or has thrown
FetchSwapsReturns ==
    /\ gtw.pc = "fetchSwaps"
    /\ \/ \* the import of node-fetch at VRF.ts:393 throws
          gtw' = CollectWalletsCatch(gtw, gtw.walletVolumeMap)
       \/ \E result \in SwapPages, cursor \in BOOLEAN :
            /\ cursor => gtw.pages + 1 < MaxPages
            /\ LET acc == AggregateSwaps([map |-> gtw.walletVolumeMap,
                                          seen |-> gtw.seen, threw |-> FALSE], result)
                   g == [gtw EXCEPT !.pages = @ + 1, !.seen = acc.seen]
               IN gtw' = IF acc.threw THEN CollectWalletsCatch(g, acc.map)
                         ELSE IF cursor THEN [g EXCEPT !.walletVolumeMap = acc.map]
                         ELSE [g EXCEPT !.pc = "returned", !.walletVolumeMap = acc.map,
                                        !.result = TopTraders(acc.map, g.topN)]
    /\ UNCHANGED <<schedulerVars, cr, sel, wf, randomnessAccounts>>

TradersNext == GetTradersWalletCalled \/ FetchSwapsReturns

SpecTraders == TradersInit /\ [][TradersNext]_vars

\* ------------------------------------------ consumeRandomness on its own
\* byte i of a result buffer: zero at the head, then 0 or 1, then any of 0, 1
\* and 255 inside the decoded bytes, 0 or 1 behind them
ResultBytes(i) ==
    IF i <= ZeroHeadBytes THEN {0}
    ELSE IF i = ZeroHeadBytes + 1 \/ i > RANDOM_VALUE_BYTES THEN {0, 1}
    ELSE {0, 1, 255}

ResultBuffers ==
    { b \in [1..ResultBufferLen -> {0, 1, 255}] :
        \A i \in 1..ResultBufferLen : b[i] \in ResultBytes(i) }

RECURSIVE BigEndian(_)
\* new BN(bytes): the bytes read as a big-endian unsigned integer
BigEndian(bytes) ==
    IF bytes = <<>> THEN 0
    ELSE 256 * BigEndian(SubSeq(bytes, 1, Len(bytes) - 1)) + bytes[Len(bytes)]

\* mutant: the test of VRF.ts:256 is left out
consumeRandomnessNoEmptyTest(c) ==
    IF ~c.sbProgram
    THEN [c EXCEPT !.pc = "threw", !.error = "VRF not initialized."]
    ELSE IF c.currentRound = <<>>
    THEN [c EXCEPT !.pc = "threw", !.error = "Randomness not revealed."]
    ELSE [c EXCEPT !.pc = "returned",
                   !.randomValue = BigEndian(SubSeq(c.currentRound, 1, RANDOM_VALUE_BYTES))]

\* VRF.ts:249 and 254-260: consumeRandomness once loadData has resolved
consumeRandomness(c) ==
    IF ~c.sbProgram
    THEN [c EXCEPT !.pc = "threw", !.error = "VRF not initialized."]
    ELSE IF c.currentRound = <<>>
    THEN [c EXCEPT !.pc = "threw", !.error = "Randomness not revealed."]
    ELSE IF \A i \in 1..Len(c.currentRound) : c.currentRound[i] = 0
    THEN [c EXCEPT !.pc = "threw", !.error = "Randomness result empty."]
    ELSE [c EXCEPT !.pc = "returned",
                   !.randomValue = BigEndian(SubSeq(c.currentRound, 1, RANDOM_VALUE_BYTES))]

\* a caller passes an account; the module is initialised or not
ConsumeInit ==
    /\ SchedulerInit
    /\ sel = NoCall
    /\ wf = NoWorkflow
    /\ gtw = NoTradersCall
    /\ randomnessAccounts = NoAccounts
    /\ \E sbProgram \in BOOLEAN, currentRound \in {<<>>} \cup ResultBuffers :
         cr = [NoConsume EXCEPT !.pc = "called", !.sbProgram = sbProgram,
                                !.currentRound = currentRound]

\* VRF.ts:248-261: the call returns or throws
ConsumeRandomnessCalled ==
    /\ cr.pc = "called"
    /\ \/ cr' = consumeRandomness(cr)
       \/ \* loadData throws
          /\ cr.sbProgram
          /\ cr' = [cr EXCEPT !.pc = "threw", !.error = "loadData"]
    /\ UNCHANGED <<schedulerVars, gtw, sel, wf, randomnessAccounts>>

ConsumeNext == ConsumeRandomnessCalled

SpecConsume == ConsumeInit /\ [][ConsumeNext]_vars

\* --------------------------------------------- processLottery on its own
\* pot sizes handed to processLottery, scaled by BPS_DENOMINATOR: whole
\* lamports and halves
LotteryPotSizes ==
    { p * BPS_DENOMINATOR : p \in 0..MaxPotSize }
    \cup { p * BPS_DENOMINATOR + BPS_DENOMINATOR \div 2 : p \in 0..MaxPotSize }

\* mainLoop has set the flag and calls processLottery(winner, potSize)
LotteryInit ==
    /\ isLotteryRunning = TRUE
    /\ \E winner \in 1..MaxTraders, potSize \in LotteryPotSizes :
         /\ currentPotSize = potSize
         /\ tick = [t \in Slots |->
                      IF t = 1
                      THEN [FreshTick EXCEPT !.pc = "processLottery",
                                             !.feesClaimed = TRUE,
                                             !.setRunning = TRUE,
                                             !.winner = winner,
                                             !.potSize = potSize]
                      ELSE FreshTick]
    /\ sel = NoCall
    /\ gtw = NoTradersCall
    /\ cr = NoConsume
    /\ wf = NoWorkflow
    /\ randomnessAccounts = NoAccounts

\* worker.ts:188-203: up to the first await of processLottery
ProcessLottery(t) ==
    /\ tick[t].pc = "processLottery"
    /\ PipelineStep(t, [tick[t] EXCEPT !.payoutAmount = PayoutAmount(tick[t].potSize)],
                    "payout")

LotteryNext ==
    \E t \in Slots :
        \/ ProcessLottery(t) /\ UNCHANGED callVars
        \/ Payout(t) /\ UNCHANGED callVars
        \/ Quote(t) /\ UNCHANGED callVars
        \/ SwapBuild(t) /\ UNCHANGED callVars
        \/ SwapSubmit(t) /\ UNCHANGED callVars
        \/ GetTokenAccountBalance(t) /\ UNCHANGED callVars
        \/ Burn(t) /\ UNCHANGED callVars
        \/ InsertReceipt(t) /\ UNCHANGED callVars

SpecLottery == LotteryInit /\ [][LotteryNext]_vars

\* ------------------------------------ selectWinnerFromTraders on its own
\* a caller holds a list of traders and a random value
SelectInit ==
    /\ SchedulerInit
    /\ \E traders \in SelectTraderLists, randomValue \in RandomValues :
         sel = [NoCall EXCEPT !.pc = "called", !.traders = traders,
                              !.randomValue = randomValue]
    /\ gtw = NoTradersCall
    /\ cr = NoConsume
    /\ wf = NoWorkflow
    /\ randomnessAccounts = NoAccounts

\* VRF.ts:289-308: the call returns or throws
SelectWinner ==
    /\ sel.pc = "called"
    /\ sel' = [sel EXCEPT !.pc = "done",
                          !.result = selectWinnerFromTraders(sel.traders, sel.randomValue)]
    /\ UNCHANGED <<schedulerVars, gtw, cr, wf, randomnessAccounts>>

SelectNext == SelectWinner

SpecSelect == SelectInit /\ [][SelectNext]_vars

\* ----------------------------------------- executeVRFWorkflow on its own
RECURSIVE Pow2(_)
\* Math.pow(2, n)
Pow2(n) == IF n = 0 THEN 1 ELSE 2 * Pow2(n - 1)

\* mutant: the keypair is generated once and kept for the later requests
GenerateKeypairOnce(w) == IF w.generated = 0 THEN 1 ELSE w.generated

\* VRF.ts:141: Keypair.generate returns a public key it has not returned before
GenerateKeypair(w) == w.generated + 1

\* VRF.ts:265: the test of the for loop, and the throw of VRF.ts:281 behind it
LoopHead(w) ==
    IF w.attempt <= w.maxRetries
    THEN [w EXCEPT !.pc = "requestVRF"]
    ELSE [w EXCEPT !.pc = "failed", !.error = "VRF workflow failed after retries."]

\* mutant: the catch block rethrows whatever the attempt
CatchRethrows(w) ==
    [w EXCEPT !.pc = "failed", !.error = "VRF workflow failed"]

\* mutant: the delay is Math.pow(2, attempt - 1) seconds
CatchBackoffFromOne(w) ==
    IF w.attempt = w.maxRetries
    THEN [w EXCEPT !.pc = "failed", !.error = "VRF workflow failed"]
    ELSE [w EXCEPT !.pc = "sleep", !.delayMs = Pow2(w.attempt - 1) * BACKOFF_UNIT_MS]

\* VRF.ts:275-279: the catch block of an attempt
Catch(w) ==
    IF w.attempt = w.maxRetries
    THEN [w EXCEPT !.pc = "failed", !.error = "VRF workflow failed"]
    ELSE [w EXCEPT !.pc = "sleep", !.delayMs = Pow2(w.attempt) * BACKOFF_UNIT_MS]

\* the phase of the running attempt was handed the account
Logged(w, phase, account) ==
    IF w.log = <<>> THEN w
    ELSE [w EXCEPT !.log[Len(w.log)] = [@ EXCEPT ![phase] = account]]

\* a caller passes maxRetries
WorkflowInit ==
    /\ SchedulerInit
    /\ sel = NoCall
    /\ gtw = NoTradersCall
    /\ cr = NoConsume
    /\ randomnessAccounts = NoAccounts
    /\ \E maxRetries \in 0..MaxWorkflowRetries :
         wf = [NoWorkflow EXCEPT !.pc = "called", !.maxRetries = maxRetries]

\* VRF.ts:264-265: the first evaluation of the loop
WorkflowStart ==
    /\ wf.pc = "called"
    /\ wf' = LoopHead([wf EXCEPT !.attempt = 1])
    /\ UNCHANGED <<schedulerVars, gtw, cr, sel, randomnessAccounts>>

\* VRF.ts:141-191: requestVRF generates the keypair, creates and funds the
\* account and verifies that it exists
WorkflowRequestCreate ==
    /\ wf.pc = "requestVRF"
    /\ LET rngKp == GenerateKeypair(wf)
           w == [wf EXCEPT !.generated = rngKp, !.rngKp = rngKp,
                           !.log = Append(@, [account |-> rngKp, commit |-> 0,
                                              poll |-> 0, reveal |-> 0,
                                              consume |-> 0, returned |-> FALSE])]
       IN \/ \* Randomness.create or the create transaction fails
             /\ wf' = Catch(w)
             /\ UNCHANGED randomnessAccounts
          \/ \* the account is on chain, getAccountInfo fails or returns null
             /\ wf' = Catch(w)
             /\ randomnessAccounts' =
                    [randomnessAccounts EXCEPT ![rngKp].created = TRUE]
          \/ /\ wf' = [w EXCEPT !.pc = "commit"]
             /\ randomnessAccounts' =
                    [randomnessAccounts EXCEPT ![rngKp].created = TRUE]
    /\ UNCHANGED <<schedulerVars, gtw, cr, sel>>

\* VRF.ts:193-231: requestVRF builds, sends and confirms the commit
WorkflowRequestCommit ==
    /\ wf.pc = "commit"
    /\ LET w == Logged(wf, "commit", wf.rngKp)
           returned == [w EXCEPT !.pc = "waitForFulfillment",
                                 !.randomnessAccount = wf.rngKp,
                                 !.wait = CallWait(FULFILLMENT_MAX_RETRIES)]
       IN \/ \* commitIx, getLatestBlockhash, sendTransaction or
             \* confirmTransaction throws
             /\ wf' = Catch(w)
             /\ UNCHANGED randomnessAccounts
          \/ /\ wf' = returned
             /\ randomnessAccounts' =
                    [randomnessAccounts EXCEPT ![wf.rngKp].committed = TRUE]
          \/ \* confirmed with value.err, which VRF.ts:220-223 does not read
             /\ wf' = returned
             /\ UNCHANGED randomnessAccounts
    /\ UNCHANGED <<schedulerVars, gtw, cr, sel>>

\* mutant: the loop test of VRF.ts:114 written as <
MorePollsStrict(w) == w.wait.attempt < w.wait.maxRetries

\* VRF.ts:114: the test of the for loop of waitForFulfillment
MorePolls(w) == w.wait.attempt <= w.wait.maxRetries

\* VRF.ts:114-130: the loop test, then one poll of waitForFulfillment and the
\* sleep behind it
WorkflowWaitForFulfillment ==
    /\ wf.pc = "waitForFulfillment"
    /\ IF ~MorePolls(wf)
       THEN wf' = [wf EXCEPT !.pc = "fulfillmentReturned", !.wait.fulfilled = "false"]
       ELSE LET w == Logged([wf EXCEPT !.wait.polls = @ + 1], "poll",
                            wf.randomnessAccount)
                data == randomnessAccounts[wf.randomnessAccount]
            IN \/ /\ data.result # 0
                  /\ wf' = [w EXCEPT !.pc = "fulfillmentReturned",
                                     !.wait.observed = "fulfilled",
                                     !.wait.fulfilled = "true"]
               \/ /\ data.result = 0
                  /\ wf' = [w EXCEPT !.wait.observed = "empty", !.wait.attempt = @ + 1]
               \/ \* loadData throws
                  wf' = [w EXCEPT !.wait.observed = "threw", !.wait.attempt = @ + 1]
    /\ UNCHANGED <<schedulerVars, gtw, cr, sel, randomnessAccounts>>

\* mutant: the value of waitForFulfillment is not tested
WorkflowFulfillmentIgnored ==
    /\ wf.pc = "fulfillmentReturned"
    /\ wf' = [wf EXCEPT !.pc = "revealRandomness"]
    /\ UNCHANGED <<schedulerVars, gtw, cr, sel, randomnessAccounts>>

\* VRF.ts:268-270: the value of waitForFulfillment is tested
WorkflowFulfillmentChecked ==
    /\ wf.pc = "fulfillmentReturned"
    /\ wf' = IF wf.wait.fulfilled = "true"
             THEN [wf EXCEPT !.pc = "revealRandomness"]
             ELSE Catch(wf)
    /\ UNCHANGED <<schedulerVars, gtw, cr, sel, randomnessAccounts>>

\* VRF.ts:234-246
WorkflowReveal ==
    /\ wf.pc = "revealRandomness"
    /\ LET w == Logged(wf, "reveal", wf.randomnessAccount)
       IN \/ /\ wf' = Catch(w)
             /\ UNCHANGED randomnessAccounts
          \/ /\ wf' = [w EXCEPT !.pc = "consumeRandomness"]
             /\ randomnessAccounts' =
                    [randomnessAccounts EXCEPT ![wf.randomnessAccount].revealed = TRUE]
    /\ UNCHANGED <<schedulerVars, gtw, cr, sel>>

\* VRF.ts:248-261 and the return of VRF.ts:272-274
WorkflowConsume ==
    /\ wf.pc = "consumeRandomness"
    /\ LET w == Logged(wf, "consume", wf.randomnessAccount)
           data == randomnessAccounts[wf.randomnessAccount]
       IN \/ \* loadData throws
             wf' = Catch(w)
          \/ wf' = IF data.result = 0
                   THEN Catch(w)
                   ELSE [w EXCEPT !.pc = "returned", !.randomValue = data.result,
                                  !.log[Len(w.log)].returned = TRUE]
    /\ UNCHANGED <<schedulerVars, gtw, cr, sel, randomnessAccounts>>

\* VRF.ts:279 and VRF.ts:265: the sleep is over, attempt++ and the loop test
WorkflowSleep ==
    /\ wf.pc = "sleep"
    /\ wf' = LoopHead([wf EXCEPT !.attempt = @ + 1, !.delayMs = 0,
                                 !.slept = Append(@, wf.delayMs)])
    /\ UNCHANGED <<schedulerVars, gtw, cr, sel, randomnessAccounts>>

\* the oracle writes the result of a committed account
OracleFulfils ==
    /\ \E a \in AccountIds, result \in 1..MaxRandom :
         /\ randomnessAccounts[a].committed
         /\ randomnessAccounts[a].result = 0
         /\ randomnessAccounts' = [randomnessAccounts EXCEPT ![a].result = result]
    /\ UNCHANGED <<schedulerVars, gtw, cr, sel, wf>>

WorkflowStep ==
    \/ WorkflowStart
    \/ WorkflowRequestCreate
    \/ WorkflowRequestCommit
    \/ WorkflowWaitForFulfillment
    \/ WorkflowFulfillmentChecked
    \/ WorkflowReveal
    \/ WorkflowConsume
    \/ WorkflowSleep

WorkflowNext == WorkflowStep \/ OracleFulfils

SpecWorkflow == WorkflowInit /\ [][WorkflowNext]_vars

\* every awaited call of the workflow returns or fails
SpecWorkflowFair == SpecWorkflow /\ WF_vars(WorkflowStep)

\* ----------------------------------------- waitForFulfillment on its own
\* states of the account a caller hands to waitForFulfillment
AccountStates ==
    { NoAccount, [NoAccount EXCEPT !.created = TRUE],
      [NoAccount EXCEPT !.created = TRUE, !.committed = TRUE] }
    \cup { [created |-> TRUE, committed |-> TRUE, revealed |-> FALSE, result |-> r] :
             r \in 1..MaxRandom }

\* a caller passes an account and maxRetries
WaitInit ==
    /\ SchedulerInit
    /\ sel = NoCall
    /\ gtw = NoTradersCall
    /\ cr = NoConsume
    /\ \E account \in AccountStates, maxRetries \in 0..MaxPollRetries :
         /\ randomnessAccounts = [NoAccounts EXCEPT ![1] = account]
         /\ wf = [NoWorkflow EXCEPT !.pc = "waitForFulfillment",
                                    !.randomnessAccount = 1,
                                    !.wait = CallWait(maxRetries)]

WaitNext == WorkflowWaitForFulfillment \/ OracleFulfils

SpecWait == WaitInit /\ [][WaitNext]_vars

\* ----------------------------------------------------------------- claims
Threshold == LOTTERY_POT_THRESHOLD * BPS_DENOMINATOR

\* the callback of slot t ends in this step
Ends(t) == tick[t].pc # "idle" /\ tick'[t].pc = "idle"

\* C1: at most one callback at a time is between setting isLotteryRunning and
\* the end of its round.
C1_OneRoundAtATime ==
    Cardinality({t \in Slots : tick[t].pc \in RoundPcs}) <= 1

\* C2: a callback whose fee claim returned true confirms at most one payout
\* transfer and at most one burn.
C2_AtMostOnePayoutAndBurn ==
    \A t \in Slots : tick[t].payouts <= 1 /\ tick[t].burns <= 1

C2_Witness ==
    \E t \in Slots :
        /\ tick[t].pc = "insertReceipt"
        /\ tick[t].feesClaimed
        /\ tick[t].payouts = 1
        /\ tick[t].burns = 1

\* C3: a callback that set isLotteryRunning leaves it false when it ends.
C3_FlagClearedAtTickEnd ==
    [][\A t \in Slots : tick[t].setRunning /\ Ends(t) => ~isLotteryRunning']_vars

\* C4: when requesting or consuming the randomness fails, the callback ends
\* with isLotteryRunning false and currentPotSize 0, having paid, swapped,
\* burned and recorded nothing.
C4_RandomnessFailureResets ==
    [][\A t \in Slots :
         Ends(t) /\ tick'[t].outcome \in RandomnessFailures
            => /\ ~isLotteryRunning'
               /\ currentPotSize' = 0
               /\ tick[t].payouts = 0 /\ tick[t].swaps = 0
               /\ tick[t].burns = 0 /\ tick[t].receipts = 0]_vars

\* C5: every step that leaves processLottery, by return or by throw, leaves
\* isLotteryRunning false and currentPotSize 0.
C5_PipelineExitResets ==
    [][\A t \in Slots :
         tick[t].pc \in PipelinePcs /\ tick'[t].pc \notin PipelinePcs
            => ~isLotteryRunning' /\ currentPotSize' = 0]_vars

C5_Witness ==
    \E t \in Slots :
        /\ tick[t].pc = "idle"
        /\ tick[t].outcome \in PipelineFailures
        /\ ~isLotteryRunning
        /\ currentPotSize = 0

\* C6: the random integer a round uses was read from an account that was
\* committed, whose fulfillment was observed and whose reveal was confirmed.
C6_RandomAfterCommitFulfilReveal ==
    \A t \in Slots :
        tick[t].randomValue # -1
            => tick[t].committed /\ tick[t].fulfilled /\ tick[t].revealed

\* C7: the index and address the scheduler pays are the ones
\* selectWinnerFromTraders returns for the round's traders and random integer.
C7_SchedulerUsesWinnerSelector ==
    [][\A t \in Slots :
         tick[t].pc = "consumeRandomness" /\ tick'[t].pc = "payout"
            => LET selected == selectWinnerFromTraders(tick[t].traders,
                                                       tick'[t].randomValue)
               IN /\ tick'[t].winnerIndex = selected.winnerIndex
                  /\ tick'[t].winner = selected.winner]_vars

\* C8: when the trader lookup returns the empty list, the callback ends with
\* currentPotSize 0 and isLotteryRunning false, and it has requested no
\* randomness, paid, swapped and burned nothing and recorded no receipt.
C8_NoTradersEndsRound ==
    [][\A t \in Slots :
         (/\ tick[t].pc = "getTradersWallet"
          /\ tick'[t].pc # "getTradersWallet"
          /\ tick'[t].traders = <<>>)
            => /\ tick'[t].pc = "idle"
               /\ currentPotSize' = 0
               /\ ~isLotteryRunning'
               /\ tick[t].vrfRequests = 0 /\ tick[t].payouts = 0
               /\ tick[t].swaps = 0 /\ tick[t].burns = 0
               /\ tick[t].receipts = 0]_vars

C8_Witness ==
    \E t \in Slots :
        /\ tick[t].pc = "idle"
        /\ tick[t].outcome = "noTraders"
        /\ currentPotSize = 0
        /\ ~isLotteryRunning

\* C9: claimFeesForToken reaches claim execution exactly when the sum over the
\* matching positions is at least the threshold.
C9_ExecutesIffAtLeastThreshold ==
    \A t \in Slots :
        tick[t].sum # -1 => (tick[t].executed <=> tick[t].sum >= Threshold)

C9_Witness ==
    \E t \in Slots : tick[t].executed /\ tick[t].sum = Threshold

\* C10: when the sum is below the threshold, claimFeesForToken returns false
\* with currentPotSize equal to the sum, builds and submits no claim
\* transaction, and leaves isLotteryRunning as it was.
C10_BelowThresholdFrame ==
    [][\A t \in Slots :
         (/\ tick[t].pc = "getAllClaimablePositions"
          /\ tick'[t].sum # -1
          /\ tick'[t].sum < Threshold)
         => /\ tick'[t].pc = "updateStatus"
            /\ ~tick'[t].feesClaimed
            /\ currentPotSize' = tick'[t].sum
            /\ tick'[t].built = 0 /\ tick'[t].sent = 0
            /\ isLotteryRunning' = isLotteryRunning]_vars

C10_Witness ==
    \E t \in Slots :
        /\ tick[t].pc = "updateStatus"
        /\ tick[t].sum = Threshold - BPS_DENOMINATOR
        /\ ~tick[t].feesClaimed
        /\ ~tick[t].executed
        /\ currentPotSize = tick[t].sum

\* the pcs inside the claim loops of claimFeesForToken
ClaimLoopPcs == {"getClaimTransaction", "sendTransaction", "confirmTransaction"}

\* C11: with no claimable position, or none of the target mint,
\* claimFeesForToken returns false with currentPotSize 0 and has built and
\* submitted no transaction.
C11_NoPositionsResetsPot ==
    [][\A t \in Slots :
         (/\ tick[t].pc = "getAllClaimablePositions"
          /\ tick'[t].found \in {"none", "noMatch"})
         => /\ tick'[t].pc = "updateStatus"
            /\ ~tick'[t].feesClaimed
            /\ currentPotSize' = 0
            /\ tick'[t].built = 0 /\ tick'[t].sent = 0]_vars

\* the pot was positive when callback u returned and callback t, finding no
\* matching position afterwards, has reset it
C11_Witness ==
    \E t, u \in Slots :
        /\ tick[t].pc = "updateStatus" /\ tick[t].found = "noMatch"
        /\ ~tick[t].feesClaimed
        /\ tick[u].pc = "updateStatus" /\ tick[u].status.currentPotSize > 0
        /\ currentPotSize = 0

\* C12: once claimFeesForToken has reached the execution phase it returns true,
\* whatever fails for a position or a transaction.
C12_ExecutionReturnsTrue ==
    [][\A t \in Slots :
         tick[t].pc \in ClaimLoopPcs /\ tick'[t].pc = "updateStatus"
            => tick'[t].feesClaimed]_vars

\* C13: when claimFeesForToken returns true, currentPotSize is the sum it
\* computed before claiming.
C13_PotIsComputedSum ==
    [][\A t \in Slots :
         (/\ tick[t].pc \in ClaimLoopPcs
          /\ tick'[t].pc = "updateStatus"
          /\ tick'[t].feesClaimed)
         => currentPotSize' = tick'[t].sum]_vars

\* --------------------------------------- claims on selectWinnerFromTraders
\* floor of a volume kept in tenths of a dollar, stated without division
ClaimFloor(volumeUsd) ==
    CHOOSE n \in 0..volumeUsd : 10 * n <= volumeUsd /\ volumeUsd < 10 * (n + 1)

\* max(1, floor(volumeUsd))
ClaimWeight(trader) ==
    IF ClaimFloor(trader.volumeUsd) >= 1 THEN ClaimFloor(trader.volumeUsd) ELSE 1

RECURSIVE ClaimCumulative(_, _)
\* the weights of the first k traders added up
ClaimCumulative(traders, k) ==
    IF k = 0 THEN 0 ELSE ClaimCumulative(traders, k - 1) + ClaimWeight(traders[k])

ClaimTotal(traders) == ClaimCumulative(traders, Len(traders))

\* the call was made with a non-empty list and is over
CalledNonEmpty == sel.pc = "done" /\ Len(sel.traders) > 0

\* C14: for a non-empty list and any random value the call returns an index
\* inside the list and the wallet address found at that index.
C14_WinnerInRange ==
    CalledNonEmpty
        => /\ sel.result.error = ""
           /\ sel.result.winnerIndex \in 0..(Len(sel.traders) - 1)
           /\ sel.result.winner = sel.traders[sel.result.winnerIndex + 1].walletAddress

\* the last of three traders is returned for a random value beyond the total
C14_Witness ==
    /\ CalledNonEmpty
    /\ Len(sel.traders) = 3
    /\ sel.randomValue > ClaimTotal(sel.traders)
    /\ sel.result.winnerIndex = 2
    /\ sel.result.winner = sel.traders[3].walletAddress

\* C15: over the random values 0..totalWeight-1, the number of values for which
\* index i is returned is max(1, floor(volumeUsd_i)).
C15_WinCountIsWeight ==
    CalledNonEmpty
        => \A i \in 1..Len(sel.traders) :
             Cardinality({ r \in 0..(ClaimTotal(sel.traders) - 1) :
                             selectWinnerFromTraders(sel.traders, r).winnerIndex = i - 1 })
                 = ClaimWeight(sel.traders[i])

\* a trader of volume 2.5 is returned from a list that also holds a trader of
\* volume 0.4
C15_Witness ==
    /\ CalledNonEmpty
    /\ sel.randomValue < ClaimTotal(sel.traders)
    /\ sel.traders[sel.result.winnerIndex + 1].volumeUsd = 25
    /\ \E i \in 1..Len(sel.traders) : sel.traders[i].volumeUsd = 4

\* C16: the index returned is the first whose cumulative weight is strictly
\* greater than randomValue mod totalWeight; with volumes 100 and 300 the
\* random value 250 returns the second trader.
C16_FirstCumulativeAbove ==
    CalledNonEmpty
        => LET selection == sel.randomValue % ClaimTotal(sel.traders)
               i == sel.result.winnerIndex + 1
           IN /\ ClaimCumulative(sel.traders, i) > selection
              /\ \A k \in 1..(i - 1) : ClaimCumulative(sel.traders, k) <= selection
              /\ (sel.traders = ExampleTraders /\ sel.randomValue = 250
                    => sel.result.winnerIndex = 1)

\* the selection value equals the cumulative weight of the first trader and
\* the second trader is returned
C16_Witness ==
    /\ CalledNonEmpty
    /\ sel.traders = ExampleTraders
    /\ sel.randomValue = 100
    /\ sel.randomValue % ClaimTotal(sel.traders) = ClaimCumulative(sel.traders, 1)
    /\ sel.result.winnerIndex = 1

\* C17: every trader of the list is returned for some random value, and a
\* single trader is returned for every random value.
C17_EveryTraderCanWin ==
    CalledNonEmpty
        => /\ \A i \in 1..Len(sel.traders) :
                \E r \in 0..(ClaimTotal(sel.traders) - 1) :
                    selectWinnerFromTraders(sel.traders, r).winnerIndex = i - 1
           /\ Len(sel.traders) = 1
                => /\ sel.result.winnerIndex = 0
                   /\ sel.result.winner = sel.traders[1].walletAddress

\* a trader of volume 0 is returned from a list whose other traders have
\* volume 3
C17_Witness ==
    /\ CalledNonEmpty
    /\ Len(sel.traders) = 3
    /\ sel.traders[sel.result.winnerIndex + 1].volumeUsd = 0
    /\ \A i \in 1..3 : i # sel.result.winnerIndex + 1 => sel.traders[i].volumeUsd = 30

\* C18: for an empty list the call throws "No traders provided." and returns
\* no winner, for every random value.
C18_NoTradersThrows ==
    sel.pc = "done" /\ Len(sel.traders) = 0
        => /\ sel.result.error = "No traders provided."
           /\ sel.result.winner = NoWinner
           /\ sel.result.winnerIndex = -1

\* the call with an empty list and the random value 250 has thrown
C18_Witness ==
    /\ sel.pc = "done"
    /\ sel.traders = <<>>
    /\ sel.randomValue = 250
    /\ sel.result.error # ""

\* ------------------------------------------- claims on executeVRFWorkflow
WorkflowOver == wf.pc \in {"returned", "failed"}

\* attempts started, returned, and the account of the last one
C19_BoundedAttempts ==
    /\ Len(wf.log) <= wf.maxRetries
    /\ \A k \in 1..(Len(wf.log) - 1) : ~wf.log[k].returned
    /\ wf.pc = "returned"
         => /\ wf.log[Len(wf.log)].returned
            /\ wf.randomValue # 0
            /\ wf.randomValue = randomnessAccounts[wf.log[Len(wf.log)].consume].result
    /\ wf.pc = "failed"
         => /\ Len(wf.log) = wf.maxRetries
            /\ \A k \in 1..Len(wf.log) : ~wf.log[k].returned

\* C19: executeVRFWorkflow starts at most maxRetries attempts, returns the
\* value of the first attempt that succeeds and starts none after it, fails
\* after exactly maxRetries failed attempts, and always comes to an end.
C19_AtMostMaxRetriesAndEnds == []C19_BoundedAttempts /\ <>WorkflowOver

\* the second of three attempts allowed has returned a value
C19_Witness ==
    /\ wf.pc = "returned"
    /\ wf.maxRetries = 3
    /\ Len(wf.log) = 2
    /\ wf.randomValue # 0

\* C20: the attempts of executeVRFWorkflow use pairwise different randomness
\* accounts, every phase of an attempt is handed the account generated in
\* that attempt, and the value returned is the result of that account.
C20_FreshAccountPerAttempt ==
    /\ \A k, l \in 1..Len(wf.log) : k # l => wf.log[k].account # wf.log[l].account
    /\ \A k \in 1..Len(wf.log) :
         \A phase \in {"commit", "poll", "reveal", "consume"} :
             wf.log[k][phase] \in {0, wf.log[k].account}
    /\ wf.pc = "returned"
         => /\ wf.log[Len(wf.log)].consume = wf.log[Len(wf.log)].account
            /\ wf.randomValue = randomnessAccounts[wf.log[Len(wf.log)].account].result

\* the second attempt has returned the result of its own account while the
\* account of the first attempt holds another result
C20_Witness ==
    /\ wf.pc = "returned"
    /\ Len(wf.log) = 2
    /\ wf.log[1].reveal = wf.log[1].account
    /\ randomnessAccounts[wf.log[1].account].result # 0
    /\ randomnessAccounts[wf.log[1].account].result # wf.randomValue
    /\ wf.randomValue = randomnessAccounts[wf.log[2].account].result

\* ------------------------------------------- claims on waitForFulfillment
\* C21: waitForFulfillment polls at most maxRetries times; a poll that throws
\* or sees no result is followed by the next poll; it returns true at the
\* poll that sees a result that is not all zero, and false only after
\* maxRetries polls.
C21_PollsAtMostMaxRetries ==
    [][wf.pc = "waitForFulfillment"
         => LET polled == wf'.wait.polls = wf.wait.polls + 1
                result == randomnessAccounts[wf.randomnessAccount].result
            IN /\ wf'.wait.polls <= wf.wait.maxRetries
               /\ wf.wait.polls > 0 => wf.wait.observed \in {"empty", "threw"}
               /\ polled /\ wf'.wait.observed = "fulfilled" => result # 0
               /\ polled /\ wf'.wait.observed = "empty" => result = 0
               /\ wf'.wait.fulfilled = "true"
                    <=> polled /\ wf'.wait.observed = "fulfilled"
               /\ polled /\ wf'.wait.observed \in {"empty", "threw"}
                    => /\ wf'.pc = "waitForFulfillment"
                       /\ wf'.wait.fulfilled = "pending"
               /\ wf'.wait.fulfilled = "false"
                    => /\ ~polled
                       /\ wf'.wait.polls = wf.wait.maxRetries]_vars

\* the call has returned false after four polls, the last of which threw
C21_Witness ==
    /\ wf.pc = "fulfillmentReturned"
    /\ wf.wait.fulfilled = "false"
    /\ wf.wait.maxRetries = 4
    /\ wf.wait.polls = 4
    /\ wf.wait.observed = "threw"

\* ----------------------------------------------- claims on processLottery
\* C22: for a potSize of whole lamports, payoutAmount is floor(potSize / 4),
\* the swap input is potSize - payoutAmount, both are non-negative whole
\* numbers, payoutAmount <= potSize and the two add up to potSize.
C22_PayoutAndSwapSplitPot ==
    \A t \in Slots :
        tick[t].pc \in PipelinePcs /\ tick[t].potSize % BPS_DENOMINATOR = 0
            => LET potSize == tick[t].potSize \div BPS_DENOMINATOR
                   payoutAmount == tick[t].payoutAmount
               IN /\ payoutAmount \in Nat
                  /\ PAYOUT_DIVISOR * payoutAmount <= potSize
                  /\ potSize < PAYOUT_DIVISOR * (payoutAmount + 1)
                  /\ payoutAmount <= potSize
                  /\ tick[t].pc # "payout"
                       => /\ tick[t].burnAmountInSOL \in Nat
                          /\ tick[t].burnAmountInSOL % BPS_DENOMINATOR = 0
                          /\ tick[t].burnAmountInSOL \div BPS_DENOMINATOR
                                 = potSize - payoutAmount
                          /\ payoutAmount * BPS_DENOMINATOR + tick[t].burnAmountInSOL
                                 = tick[t].potSize

\* a pot of 7 lamports is split into a payout of 1 and a swap input of 6
C22_Witness ==
    \E t \in Slots :
        /\ tick[t].pc = "quote"
        /\ tick[t].potSize = 7 * BPS_DENOMINATOR
        /\ tick[t].payoutAmount = 1
        /\ tick[t].burnAmountInSOL = 6 * BPS_DENOMINATOR

\* C23: a balance of zero read after the swap leads to the receipt insert
\* with no burn submitted, and the round completes with a receipt unless the
\* insert itself fails; a positive balance is burned whole.
C23_ZeroBalanceSkipsBurn ==
    [][\A t \in Slots :
         /\ (tick[t].pc = "getTokenAccountBalance" /\ tick'[t].tokensToBurn = 0)
              => /\ tick'[t].pc = "insertReceipt"
                 /\ tick'[t].burns = 0 /\ tick'[t].burned = 0
         /\ (tick[t].pc = "getTokenAccountBalance" /\ tick'[t].tokensToBurn > 0)
              => tick'[t].pc = "burn" /\ tick'[t].burns = 0
         /\ (tick[t].pc = "burn" /\ tick'[t].pc \notin {"burn", "idle"})
              => /\ tick'[t].pc = "insertReceipt"
                 /\ tick'[t].burns = 1
                 /\ tick'[t].burned = tick[t].tokensToBurn
         /\ (tick[t].pc = "insertReceipt" /\ tick[t].tokensToBurn = 0 /\ Ends(t))
              => /\ tick[t].burns = 0
                 /\ tick'[t].outcome \in {"completed", "receiptFailed"}
                 /\ tick'[t].outcome = "completed"
                      => tick'[t].receipts = 1 /\ tick'[t].receipt.burnAmount = 0]_vars

\* the round has completed with a receipt of burn amount 0
C23_Witness ==
    \E t \in Slots :
        /\ tick[t].pc = "idle"
        /\ tick[t].outcome = "completed"
        /\ tick[t].receipts = 1
        /\ tick[t].receipt.burnAmount = 0

\* C24: a callback ends with one receipt inserted if processLottery returned
\* without error and with none otherwise, no receipt is inserted before the
\* end, and the receipt holds the potSize and the winner processLottery was
\* called with.
C24_OneReceiptPerCompletedRound ==
    [][\A t \in Slots :
         /\ tick[t].pc # "idle" => tick[t].receipts = 0
         /\ Ends(t)
              => /\ tick'[t].receipts = (IF tick'[t].outcome = "completed" THEN 1 ELSE 0)
                 /\ tick'[t].outcome = "completed"
                      => /\ tick[t].pc = "insertReceipt"
                         /\ tick[t].payouts = 1 /\ tick[t].swaps = 1
                         /\ tick'[t].receipt.potSize = tick[t].potSize
                         /\ tick'[t].receipt.winner = tick[t].winner]_vars

\* one callback has completed its round with a receipt while another failed
\* at the swap and left none
C24_Witness ==
    \E t, u \in Slots :
        /\ tick[t].pc = "idle" /\ tick[t].outcome = "completed"
        /\ tick[t].receipts = 1 /\ tick[t].receipt.potSize >= Threshold
        /\ tick[u].pc = "idle" /\ tick[u].outcome = "swapFailed"
        /\ tick[u].receipts = 0

\* ------------------------------------------------- claims on the callback
\* C25: whatever call fails, the callback ends by returning: no rejection
\* leaves it, and the timer can fire the slot again.
C25_NoFailureEscapesTick ==
    [][\A t \in Slots :
         Ends(t) => /\ tick'[t].outcome # "unhandledRejection"
                    /\ ~ProcessCrashed']_vars

\* a callback has ended on a failed burn and another one has been fired since
\* the flag was cleared
C25_Witness ==
    \E t, u \in Slots :
        /\ tick[t].pc = "idle" /\ tick[t].outcome = "burnFailed"
        /\ tick[u].pc = "getAllClaimablePositions"
        /\ ~isLotteryRunning

\* the callback is inside claimFeesForToken
ClaimPcs == {"getAllClaimablePositions"} \cup ClaimLoopPcs

\* C26: a callback that is not skipped calls claimFeesForToken, and on its
\* return, true or false, hands updateOne the values currentPotSize and
\* isLotteryRunning have then; the flag is set and the round steps begin only
\* behind that write.
C26_StatusWrittenBeforeRound ==
    [][\A t \in Slots :
         /\ (tick[t].pc = "idle" /\ tick'[t].pc # "idle")
              => tick'[t].pc = "getAllClaimablePositions"
         /\ tick[t].pc \in ClaimPcs => tick'[t].pc \in ClaimPcs \cup {"updateStatus"}
         /\ (tick[t].pc \in ClaimPcs /\ tick'[t].pc = "updateStatus")
              => tick'[t].status = [currentPotSize |-> currentPotSize',
                                    isLotteryRunning |-> isLotteryRunning']
         /\ (tick'[t].pc \in RoundPcs /\ tick[t].pc \notin RoundPcs)
              => /\ tick[t].pc = "updateStatus"
                 /\ tick[t].status # NoStatus
                 /\ tick[t].feesClaimed
                 /\ ~tick[t].setRunning /\ tick'[t].setRunning]_vars

\* the monitor has returned false with a pot below the threshold and the
\* status document holds that pot
C26_Witness ==
    \E t \in Slots :
        /\ tick[t].pc = "updateStatus"
        /\ ~tick[t].feesClaimed
        /\ currentPotSize > 0
        /\ tick[t].status = [currentPotSize |-> currentPotSize,
                             isLotteryRunning |-> isLotteryRunning]

\* a transaction signed with workerKeypair has been handed to the connection
\* by the callback and its confirmation is awaited (worker.ts:162, 203, 253, 277)
TransactionPcs == {"confirmTransaction", "payout", "swapSubmit", "burn"}

\* C27: at most one transaction signed with the worker key is submitted or
\* awaiting confirmation at any time.
C27_TransactionsSerialized ==
    Cardinality({t \in Slots : tick[t].pc \in TransactionPcs}) <= 1

\* --------------------------------------------- claims on getTradersWallet
RECURSIVE SeenVolume(_, _)
\* the totalValueUsd of the swaps of a wallet in a list of swaps, added up
SeenVolume(swaps, walletAddress) ==
    IF swaps = <<>> THEN 0
    ELSE (IF Head(swaps).walletAddress = walletAddress
          THEN Head(swaps).totalValueUsd ELSE 0)
         + SeenVolume(Tail(swaps), walletAddress)

\* C28: getTradersWallet returns at most topN entries with pairwise different
\* wallet addresses, by non-increasing volumeUsd, each volume the sum of the
\* swaps seen for the wallet; with no swap seen or without key or token it
\* returns the empty list.
C28_TopTradersByVolume ==
    gtw.pc = "returned"
        => /\ Len(gtw.result) <= gtw.topN
           /\ \A i, j \in 1..Len(gtw.result) :
                i # j => gtw.result[i].walletAddress # gtw.result[j].walletAddress
           /\ \A i \in 1..(Len(gtw.result) - 1) :
                gtw.result[i].volumeUsd >= gtw.result[i + 1].volumeUsd
           /\ \A i \in 1..Len(gtw.result) :
                /\ gtw.result[i].walletAddress # 0
                /\ gtw.result[i].volumeUsd
                       = SeenVolume(gtw.seen, gtw.result[i].walletAddress)
                /\ \E k \in 1..Len(gtw.seen) :
                       gtw.seen[k].walletAddress = gtw.result[i].walletAddress
           /\ gtw.seen = <<>> => gtw.result = <<>>
           /\ ~gtw.apiKey \/ ~gtw.tokenAddress => gtw.result = <<>>

\* two pages were read, three wallets traded, and the two of largest volume
\* are returned, the first with the volume of two swaps
C28_Witness ==
    /\ gtw.pc = "returned"
    /\ gtw.pages = 2
    /\ gtw.topN = 2
    /\ Len(gtw.walletVolumeMap) = 3
    /\ Len(gtw.result) = 2
    /\ gtw.result[1].volumeUsd = 14
    /\ gtw.result[1].volumeUsd > gtw.result[2].volumeUsd

\* ------------------------------------ claims on the phases of an attempt
\* the phases an attempt has run are a prefix of commit, poll, reveal,
\* consume, all on the account of the attempt
PhasesInOrder(entry) ==
    /\ entry.commit \in {0, entry.account}
    /\ entry.poll \in {0, entry.account}
    /\ entry.reveal \in {0, entry.account}
    /\ entry.consume \in {0, entry.account}
    /\ entry.poll # 0 => entry.commit # 0
    /\ entry.reveal # 0 => entry.poll # 0
    /\ entry.consume # 0 => entry.reveal # 0
    /\ entry.returned => entry.consume # 0

\* the step starts the phase of the running attempt
Starts(phase) ==
    /\ wf.log # <<>>
    /\ Len(wf'.log) = Len(wf.log)
    /\ wf.log[Len(wf.log)][phase] = 0
    /\ wf'.log[Len(wf.log)][phase] # 0

\* the step is the catch block of the running attempt
AttemptFails ==
    /\ wf.pc \notin {"called", "sleep", "failed", "returned", "idle"}
    /\ wf'.pc \in {"sleep", "failed"}

\* C29: the phases of an attempt run in the order commit, await-fulfillment,
\* reveal, consume; reveal starts only after waitForFulfillment returned true
\* for the account, consume only after the reveal was confirmed, and after a
\* failure no phase of the attempt runs any more.
C29_PhasesInOrder ==
    [][ /\ \A k \in 1..Len(wf'.log) : PhasesInOrder(wf'.log[k])
        /\ Starts("reveal")
               => /\ wf.wait.fulfilled = "true"
                  /\ wf.randomnessAccount = wf.log[Len(wf.log)].account
                  /\ randomnessAccounts[wf.randomnessAccount].result # 0
        /\ Starts("consume")
               => randomnessAccounts[wf.log[Len(wf.log)].account].revealed
        /\ (AttemptFails /\ wf.log # <<>>)
               => \/ wf'.log[Len(wf.log)] = wf.log[Len(wf.log)]
                  \/ \E phase \in {"commit", "reveal", "consume"} :
                       /\ Starts(phase)
                       /\ wf'.log[Len(wf.log)] =
                              [wf.log[Len(wf.log)] EXCEPT
                                  ![phase] = wf.log[Len(wf.log)].account]
        /\ \A k \in 1..(Len(wf.log) - 1) : wf'.log[k] = wf.log[k]
        /\ (wf.log # <<>> /\ wf.pc \in {"sleep", "failed", "returned"})
               => \/ wf'.log = wf.log
                  \/ /\ wf.pc = "sleep"
                     /\ Len(wf'.log) = Len(wf.log) + 1
                     /\ wf'.log[Len(wf.log)] = wf.log[Len(wf.log)]
      ]_vars

\* the reveal of the first attempt failed, so that it consumed nothing, and
\* the second attempt ran its four phases on another account and returned
C29_Witness ==
    /\ Len(wf.log) = 2
    /\ wf.log[1].reveal = wf.log[1].account
    /\ wf.log[1].consume = 0
    /\ wf.log[2].account # wf.log[1].account
    /\ wf.log[2].consume = wf.log[2].account
    /\ wf.log[2].returned
    /\ wf.pc = "returned"

\* ------------------------------------------ claims on the retry delays
\* the delays the claim names, in seconds, by the attempt that failed
ClaimDelaySeconds == <<2, 4, 8, 16, 32>>

\* C30: after failed attempt k < maxRetries the workflow waits 2^k seconds and
\* then starts attempt k + 1; after the failure of attempt maxRetries it fails
\* without waiting.
C30_BackoffDoubles ==
    [][ /\ (AttemptFails /\ wf.attempt < wf.maxRetries)
            => /\ wf'.pc = "sleep"
               /\ wf'.delayMs = ClaimDelaySeconds[wf.attempt] * 1000
               /\ wf'.attempt = wf.attempt
               /\ wf'.slept = wf.slept
        /\ (wf.pc = "sleep" /\ wf' # wf)
            => /\ wf'.pc = "requestVRF"
               /\ wf'.attempt = wf.attempt + 1
               /\ wf'.slept = Append(wf.slept, ClaimDelaySeconds[wf.attempt] * 1000)
        /\ (AttemptFails /\ wf.attempt >= wf.maxRetries)
            => /\ wf.attempt = wf.maxRetries
               /\ wf'.pc = "failed"
               /\ wf'.slept = wf.slept
               /\ Len(wf.slept) = wf.maxRetries - 1
        /\ (wf.pc \notin {"sleep", "idle"} /\ wf'.pc # "sleep")
            => wf'.slept = wf.slept
      ]_vars

\* three attempts failed: the workflow waited 2 s and 4 s and nothing after
\* the third
C30_Witness ==
    /\ wf.pc = "failed"
    /\ wf.maxRetries = 3
    /\ wf.attempt = 3
    /\ wf.slept = <<2000, 4000>>

\* ------------------------------------------- claims on consumeRandomness
\* the buffer has a byte that is not zero
ClaimNotAllZero(buffer) == \E i \in 1..Len(buffer) : buffer[i] # 0

\* the first 8 bytes as an integer, most significant byte first; the bytes
\* of the four highest places are zero in every buffer of ResultBuffers
ClaimFirstEightBytes(buffer) ==
    buffer[5] * 16777216 + buffer[6] * 65536 + buffer[7] * 256 + buffer[8]

\* C31: consumeRandomness returns an integer only when the result buffer of
\* the account is present and not all zero, and the integer is then the one
\* its first 8 bytes encode; when the buffer is missing or all zero it fails
\* with an error and returns no value.
C31_ConsumeDecodesNonZeroResult ==
    /\ cr.pc = "returned"
           => /\ cr.currentRound # <<>>
              /\ ClaimNotAllZero(cr.currentRound)
              /\ cr.randomValue = ClaimFirstEightBytes(cr.currentRound)
              /\ cr.error = ""
    /\ (cr.pc \in {"returned", "threw"}
        /\ (cr.currentRound = <<>> \/ ~ClaimNotAllZero(cr.currentRound)))
           => /\ cr.pc = "threw"
              /\ cr.error # ""
              /\ cr.randomValue = NoConsume.randomValue

\* the value 1 * 65536 + 255 was decoded from a buffer whose ninth byte,
\* which is not decoded, is set
C31_Witness ==
    /\ cr.pc = "returned"
    /\ cr.currentRound = <<0, 0, 0, 0, 0, 1, 0, 255, 1>>
    /\ cr.randomValue = 65791

\* --------------------------------------------------- claims on requestVRF
\* C32: requestVRF returns a randomness account only if the create and fund
\* transaction and the commit transaction were both confirmed without error.
C32_ReturnedAccountIsCommitted ==
    wf.pc = "waitForFulfillment"
        => /\ wf.randomnessAccount = wf.rngKp
           /\ randomnessAccounts[wf.randomnessAccount].created
           /\ randomnessAccounts[wf.randomnessAccount].committed

\* ------------------------------------- claims on the order of the pipeline
\* the awaits of processLottery that may follow one another
ClaimPipelineOrder ==
    [payout |-> {"quote"},
     quote |-> {"swapBuild"},
     swapBuild |-> {"swapSubmit"},
     swapSubmit |-> {"getTokenAccountBalance"},
     getTokenAccountBalance |-> {"burn", "insertReceipt"},
     burn |-> {"insertReceipt"},
     insertReceipt |-> {}]

\* the transactions confirmed when the callback waits at pc
ClaimConfirmed(rec) ==
    LET after(pcs) == IF rec.pc \in pcs THEN 1 ELSE 0
    IN /\ rec.payouts = after(PipelinePcs \ {"payout"})
       /\ rec.swaps = after({"getTokenAccountBalance", "burn", "insertReceipt"})
       /\ rec.burns = (IF rec.pc = "insertReceipt" /\ rec.tokensToBurn > 0 THEN 1 ELSE 0)
       /\ (rec.tokensToBurn # FreshTick.tokensToBurn) = (rec.pc \in {"burn", "insertReceipt"})
       /\ rec.receipts = 0

\* C33: processLottery confirms the payout, requests the quote, confirms the
\* swap, reads the balance, confirms the burn if there is one and inserts the
\* receipt, in this order, each step after the one before it was confirmed;
\* a step that fails ends the call and no later step runs.
C33_PipelineInOrder ==
    [][\A t \in Slots :
         /\ tick[t].pc \in PipelinePcs => ClaimConfirmed(tick[t])
         /\ (tick[t].pc \in PipelinePcs /\ tick'[t].pc # tick[t].pc)
              => \/ /\ tick'[t].pc \in ClaimPipelineOrder[tick[t].pc]
                    /\ ClaimConfirmed(tick'[t])
                 \/ /\ tick'[t].pc = "idle"
                    /\ tick'[t].outcome \in PipelineFailures
                    /\ tick'[t].receipts = 0
                    /\ tick'[t].payouts = 0 /\ tick'[t].swaps = 0 /\ tick'[t].burns = 0
                 \/ /\ tick'[t].pc = "idle"
                    /\ tick[t].pc = "insertReceipt"
                    /\ tick'[t].outcome = "completed"
                    /\ tick'[t].receipts = 1]_vars

\* the six steps have run: the receipt of a round that burned 5 tokens
C33_Witness ==
    \E t \in Slots :
        /\ tick[t].pc = "idle"
        /\ tick[t].outcome = "completed"
        /\ tick[t].receipts = 1
        /\ tick[t].receipt.burnAmount = 5

\* ----------------------------------------- claims on a quote without output
\* C34: a quote without output amount ends the round at once: the quote is
\* not requested again, no swap is built or submitted, nothing is burned, no
\* receipt is inserted, the callback ends on the error, isLotteryRunning and
\* currentPotSize are reset, and the confirmed payout stays.
C34_EmptyQuoteEndsRound ==
    [][\A t \in Slots :
         /\ (tick[t].pc = "quote" /\ tick'[t] # tick[t])
              => \/ tick'[t].pc = "swapBuild"
                 \/ Ends(t) /\ tick'[t].outcome \in {"quoteFailed", "quoteEmpty"}
         /\ tick'[t].pc = "quote" => tick[t].pc \in {"payout", "quote"}
         /\ (Ends(t) /\ tick'[t].outcome = "quoteEmpty")
              => /\ tick[t].pc = "quote"
                 /\ tick[t].payouts = 1
                 /\ tick[t].swaps = 0 /\ tick[t].burns = 0 /\ tick[t].burned = 0
                 /\ tick'[t].receipts = 0
                 /\ ~isLotteryRunning'
                 /\ currentPotSize' = 0
                 /\ ~ProcessCrashed']_vars

\* a callback ended on a quote without output amount, and the timer has
\* started another callback since
C34_Witness ==
    \E t, u \in Slots :
        /\ tick[t].pc = "idle"
        /\ tick[t].outcome = "quoteEmpty"
        /\ tick[u].pc = "getAllClaimablePositions"
        /\ ~isLotteryRunning
        /\ currentPotSize = 0

\* ------------------------------------------------ claims on the fallback
\* C35: for a list that is not empty the walk of selectWinnerFromTraders
\* returns from inside its loop: the fallback return behind the loop is not
\* reached.
C35_FallbackNeverReached ==
    (sel.pc = "done" /\ sel.traders # <<>>)
        => /\ ~sel.result.fallback
           /\ sel.result.error = ""
           /\ sel.result.selectionValue < ClaimTotal(sel.traders)
           /\ sel.result.selectionValue
                  >= ClaimCumulative(sel.traders, sel.result.winnerIndex)

\* the last of three traders was selected inside the loop by the largest
\* selection value there is
C35_Witness ==
    /\ sel.pc = "done"
    /\ Len(sel.traders) = 3
    /\ sel.result.winnerIndex = 2
    /\ sel.result.selectionValue = sel.result.totalWeight - 1
    /\ ~sel.result.fallback

\* ------------------------------------- claims on the pot of a round
\* C36: the potSize processLottery is called with is the sum claimFeesForToken
\* computed in the same callback, and so at least LOTTERY_POT_THRESHOLD.
C36_RoundPotIsClaimedSum ==
    [][\A t \in Slots :
         (tick[t].pc = "consumeRandomness" /\ tick'[t].pc = "payout")
            => /\ tick'[t].potSize = tick[t].sum
               /\ tick'[t].potSize >= Threshold]_vars

\* ------------------------------------- claims on the status documents
\* C37: when callbacks do not overlap, every status document handed to
\* updateOne has isLotteryRunning false and the currentPotSize the fee check
\* of the callback left; a document is built only on the return of
\* claimFeesForToken, so that none is written while the flag is set, at the
\* end of a round, when the pot is reset, or by a skipped callback.
C37_StatusNeverReportsRound ==
    [][\A t \in Slots :
         /\ tick'[t].pc = "updateStatus"
              => /\ ~tick'[t].status.isLotteryRunning
                 /\ tick'[t].status.currentPotSize = currentPotSize'
                 /\ ~isLotteryRunning'
         /\ (tick'[t].status # NoStatus /\ tick'[t] # tick[t])
              => /\ tick[t].pc \in ClaimPcs
                 /\ tick'[t].pc = "updateStatus"
         /\ (tick[t].pc = "updateStatus" /\ isLotteryRunning')
              => /\ ~tick[t].status.isLotteryRunning
                 /\ tick[t].status.currentPotSize >= Threshold
                 /\ tick'[t].status = NoStatus
         /\ (tick[t].pc \in RoundPcs /\ Ends(t))
              => tick'[t].status = NoStatus
         /\ (tick[t].pc = "idle" /\ tick'[t].outcome = "skipped")
              => tick'[t].status = NoStatus]_vars

\* a round has completed and reset the pot, and the callback after it hands
\* updateOne a pot at the threshold with the flag false
C37_Witness ==
    \E t, u \in Slots :
        /\ tick[u].pc = "idle"
        /\ tick[u].outcome = "completed"
        /\ tick[t].pc = "updateStatus"
        /\ tick[t].feesClaimed
        /\ tick[t].status = [currentPotSize |-> Threshold, isLotteryRunning |-> FALSE]

====
